---- MODULE Spec2Model ----
(***************************************************************************)
(* Model of sj_trading's stop-loss / take-profit strategy                  *)
(* (strategy/stop_loss.py) together with the parts of the order manager    *)
(* (trading/order.py) and of the brokerage gateway it drives.              *)
(*                                                                         *)
(* Threads: the main thread executes StopLossStrategy.run(); the gateway's *)
(* push channel invokes on_tick_fop_v1 and on_trade on callback threads.   *)
(* The strategy object is bound as the callback context before run() is    *)
(* called (main.py:85), and the handlers are guarded only by the object's  *)
(* own flags, so a callback may be delivered in any state of run().        *)
(* Every step of a thread is one access to shared state followed by the    *)
(* thread-local code up to the next blocking call or shared access.        *)
(*                                                                         *)
(* The quote manager (data/quote.py) is modelled with the gateway's quote  *)
(* channel: the main thread subscribes, unsubscribes and polls, the push   *)
(* thread runs _on_tick_handler.                                           *)
(*                                                                         *)
(* The order commands of the command line (main.py) and of the Telegram    *)
(* bot (core/telegram_bot.py) call OrderManager one command at a time      *)
(* while the gateway moves the orders through their statuses.  fetch_ticks *)
(* and _aggregate_kbar are functions of their inputs and are applied to    *)
(* every input within the bounds.                                          *)
(***************************************************************************)
EXTENDS Integers, Sequences, FiniteSets, TLC

----------------------------------------------------------------------------
(* Bounds of the model *)

MaxPrice == 3
MaxQty == 2
MaxEvents == 3

Prices == 1..MaxPrice
Quantities == 1..MaxQty
CbThreads == {"cb1", "cb2"}
ThreadBefore(u, t) == u = "cb1" /\ t = "cb2"
None == "None"
NoId == 0
NoPosition == [direction |-> "none", quantity |-> 0]
Symbol == "SYM"
OtherCode == "OTHER"
Codes == {Symbol, OtherCode}
Directions == {"long", "short"}

(* Constructor inputs: a stop price inside the tick price range and a     *)
(* take-profit price different from it.                                    *)
SlInputs == {2}
TpInputs == {3}

(* Ticks the push channel can deliver: every price for the symbol, and a   *)
(* tick of another instrument.                                             *)
TickInputs ==
    {[code |-> Symbol, price |-> p] : p \in Prices}
    \cup {[code |-> OtherCode, price |-> MaxPrice]}

(* What list_positions can report for the symbol: shioaji reports the side *)
(* in `direction` with an unsigned quantity; get_futures_position's        *)
(* docstring expects a signed quantity.  Both conventions are inputs.      *)
PositionReports ==
    {[direction |-> "Buy", quantity |-> q] : q \in Quantities}
    \cup {[direction |-> "Sell", quantity |-> q] : q \in Quantities}
    \cup {[direction |-> "Sell", quantity |-> 0 - q] : q \in Quantities}

(* Quote manager: bounds on the ticks the market produces and on the      *)
(* calls the main thread makes.                                            *)
MaxTicks == 2
MaxCalls == 3
MaxStops == 2

Markets == {"stk", "fop"}
StkCodes == {"2330", "2317"}
FopCodes == {Symbol}
QmCodes == StkCodes \cup FopCodes
CodesOf(m) == IF m = "stk" THEN StkCodes ELSE FopCodes

(* The instruments that trade while the model runs: one of each market *)
TickCodes == {"2330", Symbol}

(* Mutant: every tick is routed to the futures/options buffer *)
MarketOf_fop(code) == "fop"

(* _on_tick_handler: "stk" if "STK" in type(tick).__name__ else "fop" *)
MarketOf(code) == IF code \in StkCodes THEN "stk" ELSE "fop"

VARIABLES
    symbol, qty, sl_price, tp_price, direction,   \* constructor arguments
    telegram,                                      \* the notifier's channel
    is_running, position_closed, tp_order_id, sl_order_id,
    runPc, abortReason,                            \* main thread in run()
    cbPc, cbEvt, cbLoc, cbBorn,                    \* callback threads
    gwPosition, orders, pendingFills, subscribed, \* gateway and quote manager
    notes,                                         \* titles passed to notify()
    events, nTrigger, nCancelCalls, nCancelReq, nSlSubmit, nClosed,
    slFailed, fillsDelivered, fillArmed, qualArmed, unarmedTick, ignored

VARIABLES
    _ticks, _df, _subscribed,        \* QuoteManager fields, per market type
    listId,                          \* identity of the list object in _ticks[m]
    qmMain,                          \* main thread inside a QuoteManager call
    qmCb,                            \* callback thread inside _on_tick_handler
    gwSubs, history, inflight,       \* gateway quote channel
    arrived, nFetch, nCalls, lastOp, lateWrite, nStop

VARIABLES
    trades,                          \* the gateway's trades of the session
    omOut,                           \* outcome of the last order command
    botLast,                         \* the last update the bot polled
    fetchCall,                       \* the last fetch_ticks call
    kbarCall                         \* the last _aggregate_kbar calls

VARIABLES
    client,                          \* Config and the ShioajiClient singleton
    poll,                            \* the bot's polling loop and Telegram
    ma,                              \* a run of MACrossoverStrategy
    pair                             \* the two quote managers side by side

extraVars == <<client, poll, ma, pair>>
sideVars == <<trades, omOut, botLast, fetchCall, kbarCall, extraVars>>
qmVars == <<_ticks, _df, _subscribed, listId, qmMain, qmCb, gwSubs, history,
            inflight, arrived, nFetch, nCalls, lastOp, lateWrite, nStop>>
stratVars == <<symbol, qty, sl_price, tp_price, direction, telegram>>
flagVars == <<is_running, position_closed, tp_order_id, sl_order_id>>
runVars == <<runPc, abortReason>>
cbVars == <<cbPc, cbEvt, cbLoc, cbBorn>>
gwVars == <<gwPosition, orders, pendingFills, subscribed>>
histVars == <<events, nTrigger, nCancelCalls, nCancelReq, nSlSubmit, nClosed,
              slFailed, fillsDelivered, fillArmed, qualArmed, unarmedTick, ignored>>
coreVars == <<stratVars, flagVars, runVars, cbVars, gwVars, notes, histVars, qmVars>>
vars == <<coreVars, sideVars>>

NoEvt == [kind |-> "none", code |-> None, price |-> 0, oid |-> NoId]
NoLoc == [tp |-> NoId, cancel |-> "none", listed |-> "none", sl |-> NoId,
          tg |-> "none"]
(* History only: what held when the callback was delivered *)
NoBorn == [closed |-> FALSE, failed |-> FALSE, aborted |-> FALSE]

QmIdle == [pc |-> "idle", market |-> None, code |-> None, held |-> <<>>]
NoTick == [code |-> None, datetime |-> 0]
CbIdle == [pc |-> "idle", tick |-> NoTick, ref |-> 0]

----------------------------------------------------------------------------
(* QuoteManager.__init__ and the gateway's quote channel at start *)

QmInit ==
    /\ _ticks = [m \in Markets |-> <<>>]
    /\ _df = [m \in Markets |-> <<>>]
    /\ _subscribed = [m \in Markets |-> {}]
    /\ listId = [m \in Markets |-> 1]
    /\ qmMain = QmIdle
    /\ qmCb = CbIdle
    /\ gwSubs = [c \in QmCodes |-> 0]
    /\ history = {}
    /\ inflight = <<>>
    /\ arrived = [m \in Markets |-> <<>>]
    /\ nFetch = 0
    /\ nCalls = 0
    /\ lastOp = "none"
    /\ lateWrite = FALSE
    /\ nStop = 0

----------------------------------------------------------------------------
(* The order commands, the bot and the historical data functions before   *)
(* their first call                                                        *)

NoCount == 0 - 1
NoOut == [op |-> "none", via |-> "none", id |-> NoId,
          error |-> None, value |-> {}, count |-> NoCount, sent |-> <<>>]
NoUpdate == [chat |-> 0, handled |-> FALSE]
NoFetch == [hour |-> 0, main |-> <<>>, night |-> <<>>, calls |-> 0,
            result |-> <<>>]
NoKbar == [snapshot |-> <<>>, unit |-> 0, after |-> <<>>, bars |-> <<>>,
           prev |-> <<>>, runs |-> 0]

(* Environment variables as os.getenv returns them: absent, empty, set *)
EnvValues == {None, "", "value"}
NoClient == [loaded |-> FALSE,
             cfg |-> [API_KEY |-> None, SECRET_KEY |-> None,
                      CA_CERT_PATH |-> None, CA_PASSWORD |-> None],
             instance |-> FALSE, simulation |-> TRUE, session |-> "none",
             logins |-> 0, ca |-> FALSE, error |-> None]
NoPoll == [pc |-> "new", last_update_id |-> 0, updates |-> <<>>,
           batch |-> <<>>, dispatched |-> <<>>, failures |-> {},
           endedBy |-> None]
NoMa == [pc |-> "new", subscribed |-> {}, buffer |-> <<>>, df |-> <<>>,
         last_tick_count |-> 0, orders |-> 0, rowsAtOrder |-> 0,
         exit |-> None]
NoManager == [subscribed |-> [m \in {"stk", "fop"} |-> {}],
              ticks |-> [m \in {"stk", "fop"} |-> <<>>],
              df |-> [m \in {"stk", "fop"} |-> <<>>],
              gw |-> <<>>, ret |-> <<>>]
NoPair == [new |-> NoManager, old |-> NoManager, ops |-> 0, lookupFailed |-> FALSE]

SideInit ==
    /\ client = NoClient
    /\ poll = NoPoll
    /\ ma = NoMa
    /\ pair = NoPair
    /\ trades = <<>>
    /\ omOut = NoOut
    /\ botLast = NoUpdate
    /\ fetchCall = NoFetch
    /\ kbarCall = NoKbar

----------------------------------------------------------------------------
(* StopLossStrategy.__init__ *)

StrategyInit(channel) ==
    /\ QmInit
    /\ SideInit
    /\ telegram = channel
    /\ symbol = Symbol
    /\ qty \in Quantities
    /\ sl_price \in SlInputs
    /\ tp_price \in TpInputs
    /\ direction \in Directions
    /\ is_running = FALSE
    /\ position_closed = FALSE
    /\ tp_order_id = NoId
    /\ sl_order_id = NoId
    /\ runPc = "start"
    /\ abortReason = None
    /\ cbPc = [t \in CbThreads |-> "idle"]
    /\ cbEvt = [t \in CbThreads |-> NoEvt]
    /\ cbLoc = [t \in CbThreads |-> NoLoc]
    /\ cbBorn = [t \in CbThreads |-> NoBorn]
    /\ gwPosition \in PositionReports \cup {NoPosition}
    /\ orders = <<>>
    /\ pendingFills = {}
    /\ subscribed = {}
    /\ notes = {}
    /\ events = 0
    /\ nTrigger = 0
    /\ nCancelCalls = 0
    /\ nCancelReq = 0
    /\ nSlSubmit = 0
    /\ nClosed = 0
    /\ slFailed = FALSE
    /\ fillsDelivered = {}
    /\ fillArmed = FALSE
    /\ qualArmed = FALSE
    /\ unarmedTick = FALSE
    /\ ignored = {}

(* The strategy as constructed, with a Telegram channel that answers *)
Init == StrategyInit("up")

(* The same with a channel whose sends may fail *)
NotifyInit == StrategyInit("flaky")

----------------------------------------------------------------------------
(* Pure helpers of StopLossStrategy and OrderManager *)

Abs(n) == IF n < 0 THEN 0 - n ELSE n

(* run(): pos_dir = "long" if direction == Action.Buy or quantity > 0 *)
PosDir(position) ==
    IF position.direction = "Buy" \/ position.quantity > 0
    THEN "long" ELSE "short"

(* Mutant: the quantity check is missing *)
PositionCheck_noQty(position, q, dir) ==
    IF position = NoPosition THEN "No position found"
    ELSE IF PosDir(position) # dir THEN "Position direction mismatch"
    ELSE "ok"

(* run(), step 0: the three checks of the position; "ok" or the error text *)
PositionCheck(position, q, dir) ==
    IF position = NoPosition THEN "No position found"
    ELSE IF Abs(position.quantity) < q THEN "Insufficient position"
    ELSE IF PosDir(position) # dir THEN "Position direction mismatch"
    ELSE "ok"

(* run(), step 1: the take-profit order's action *)
TpAction(dir) == IF dir = "long" THEN "Sell" ELSE "Buy"

(* The public methods of data.quote.QuoteManager *)
QuoteManagerMethods ==
    {"on_stk_v1_tick_handler", "on_fop_v1_tick_handler", "get_df_stk",
     "get_df_fop", "get_df_stk_kbar", "fetch_ticks", "subscribe_stk_tick",
     "subscribe_fop_tick", "unsubscribe_stk_tick", "unsubscribe_fop_tick",
     "unsubscribe_all_stk_tick", "unsubscribe_all_fop_tick"}

(* OrderManager.place_futures_order builds the order that is submitted *)
FuturesOrder(leg, action, price, quantity, price_type) ==
    [leg |-> leg, action |-> action, price |-> price, qty |-> quantity,
     ptype |-> price_type, otype |-> "ROD", status |-> "live"]

MktPrice == 0

TpOrderIds == {i \in DOMAIN orders : orders[i].leg = "tp"}
SlOrderIds == {i \in DOMAIN orders : orders[i].leg = "sl"}

----------------------------------------------------------------------------
(* Main thread: StopLossStrategy.run() and stop() *)

RunStart ==
    /\ runPc = "start"
    /\ is_running' = TRUE
    /\ notes' = notes \cup {"Strategy Started"}
    /\ runPc' = "verify"
    /\ UNCHANGED <<sideVars, qmVars, stratVars, position_closed, tp_order_id, sl_order_id,
                   abortReason, cbVars, gwVars, histVars>>

(* get_futures_position and the checks; any exception is caught, notified *)
(* and followed by stop() and return.                                     *)
RunVerify ==
    /\ runPc = "verify"
    /\ \E raised \in BOOLEAN :
         LET r == IF raised THEN "gateway error"
                  ELSE PositionCheck(gwPosition, qty, direction)
         IN IF r = "ok"
            THEN /\ runPc' = "place_tp"
                 /\ UNCHANGED <<abortReason, notes>>
            ELSE /\ runPc' = "aborting"
                 /\ abortReason' = r
                 /\ notes' = notes \cup {"Position Check Failed"}
    /\ UNCHANGED <<sideVars, qmVars, stratVars, flagVars, cbVars, gwVars, histVars>>

(* self.stop(); return, at the end of either except block *)
RunAbortStop ==
    /\ runPc = "aborting"
    /\ is_running' = FALSE
    /\ runPc' = "aborted"
    /\ UNCHANGED <<sideVars, qmVars, stratVars, position_closed, tp_order_id, sl_order_id,
                   abortReason, cbVars, gwVars, notes, histVars>>

(* _place_tp_order: place_futures_order(LMT, ROD) reaches the gateway or  *)
(* raises (contract not found, gateway error).                            *)
RunPlaceTp ==
    /\ runPc = "place_tp"
    /\ \E ok \in BOOLEAN :
         IF ok
         THEN /\ orders' = Append(orders,
                     FuturesOrder("tp", TpAction(direction), tp_price, qty, "LMT"))
              /\ runPc' = "tp_store"
              /\ UNCHANGED <<abortReason, notes>>
         ELSE /\ runPc' = "aborting"
              /\ abortReason' = "TP placement failed"
              /\ notes' = notes \cup {"Failed to place TP Order"}
              /\ UNCHANGED orders
    /\ UNCHANGED <<sideVars, qmVars, stratVars, flagVars, cbVars, gwPosition, pendingFills,
                   subscribed, histVars>>

(* self.tp_order_id = trade.status.id, then the notification *)
RunStoreTp ==
    /\ runPc = "tp_store"
    /\ tp_order_id' = CHOOSE i \in TpOrderIds : TRUE
    /\ notes' = notes \cup {"TP Order Placed"}
    /\ runPc' = "subscribe"
    /\ UNCHANGED <<sideVars, qmVars, stratVars, is_running, position_closed, sl_order_id,
                   abortReason, cbVars, gwVars, histVars>>

(* self.quote_manager.subscribe([self.symbol]): an attribute the quote    *)
(* manager does not have raises AttributeError out of run().              *)
RunSubscribe ==
    /\ runPc = "subscribe"
    /\ IF "subscribe" \in QuoteManagerMethods
       THEN /\ subscribed' = subscribed \cup {symbol}
            /\ runPc' = "monitor"
       ELSE /\ runPc' = "crashed"
            /\ UNCHANGED subscribed
    /\ UNCHANGED <<sideVars, qmVars, stratVars, flagVars, abortReason, cbVars, gwPosition,
                   orders, pendingFills, notes, histVars>>

(* KeyboardInterrupt outside the monitoring loop leaves run(); main.py     *)
(* catches it and calls strategy.stop().                                   *)
RunInterrupt ==
    /\ runPc \in {"verify", "aborting", "place_tp", "tp_store", "subscribe"}
    /\ is_running' = FALSE
    /\ runPc' = "stopped"
    /\ UNCHANGED <<sideVars, qmVars, stratVars, position_closed, tp_order_id, sl_order_id,
                   abortReason, cbVars, gwVars, notes, histVars>>

----------------------------------------------------------------------------
(* Callback threads: on_tick_fop_v1 and _trigger_sl_execution *)

(* Mutant: the guard does not look at position_closed *)
TickGuard_noClosed(closed, running) == ~running

(* on_tick_fop_v1: if self.position_closed or not self.is_running: return *)
TickGuard(closed, running) == closed \/ ~running

(* Mutant: strict comparisons *)
StopHit_strict(dir, price, sl) ==
    IF dir = "long" THEN price < sl ELSE price > sl

(* on_tick_fop_v1, OCO logic: the direction-aware comparison *)
StopHit(dir, price, sl) ==
    IF dir = "long" THEN price <= sl ELSE price >= sl

(* on_tick_fop_v1: the action handed to _trigger_sl_execution *)
SlAction(dir) == IF dir = "long" THEN "Sell" ELSE "Buy"

(* Mutant: an exception of cancel_order leaves the handler *)
AfterCancel_propagate(outcome) ==
    IF outcome = "raised" THEN "idle" ELSE "t_place"

(* _trigger_sl_execution: where control goes after cancel_order returned or *)
(* raised; the except clause swallows the exception.                       *)
AfterCancel(outcome) == "t_place"

(* The stop condition as the specification words it *)
StopCondition(dir, p, sl) ==
    \/ dir = "long" /\ p <= sl
    \/ dir = "short" /\ p >= sl

(* History only: the tick is for the symbol, satisfies the stop condition, *)
(* and arrives while the strategy is running with its take-profit order    *)
(* stored, the position open and run() past its last statement.            *)
ArmedAt(c, p) ==
    /\ c = symbol
    /\ StopCondition(direction, p, sl_price)
    /\ is_running /\ ~position_closed
    /\ tp_order_id # NoId
    /\ runPc = "crashed"

(* History only: the tags of a tick for the symbol that satisfied the stop *)
(* condition and was ignored: what already held when it was delivered.     *)
IgnoredTags(t) ==
    IF cbEvt[t].code = symbol
       /\ StopCondition(direction, cbEvt[t].price, sl_price)
    THEN {k \in {"closed", "failed", "aborted"} : cbBorn[t][k]}
    ELSE {}

Back(t) ==
    /\ cbPc' = [cbPc EXCEPT ![t] = "idle"]
    /\ cbEvt' = [cbEvt EXCEPT ![t] = NoEvt]
    /\ cbLoc' = [cbLoc EXCEPT ![t] = NoLoc]
    /\ cbBorn' = [cbBorn EXCEPT ![t] = NoBorn]

(* What requests.post to the Telegram API can do: answer 200, answer      *)
(* another status, or raise (timeout, connection error).  While the        *)
(* channel is up every send is answered with 200.                          *)
SendResults ==
    IF telegram = "up" THEN {"ok"} ELSE {"ok", "http_error", "timeout"}

(* Mutant: an exception of requests.post leaves notify *)
NotifyOutcome_propagate(send) ==
    IF send = "timeout" THEN "raised" ELSE "returned"

(* NotificationManager.notify: the send is inside try/except Exception,   *)
(* a status other than 200 is printed.                                     *)
NotifyOutcome(send) == "returned"

(* self.notifier.notify(title, ...) in a callback that holds the locals    *)
(* loc: the title is printed, then the Telegram send has the result send.  *)
(* When notify returns the callback goes on at pc; an exception would end  *)
(* the callback.  tg is history only: a send of this callback failed.      *)
NotifyThen(t, title, send, pc, loc) ==
    /\ notes' = notes \cup {title}
    /\ IF NotifyOutcome(send) = "returned"
       THEN /\ cbPc' = [cbPc EXCEPT ![t] = pc]
            /\ cbLoc' = [loc EXCEPT ![t].tg = IF send = "ok" THEN @ ELSE "failed"]
            /\ UNCHANGED <<cbEvt, cbBorn>>
       ELSE Back(t)

(* The callback threads are interchangeable: a new callback runs on the    *)
(* first thread that is free.                                              *)
FreeThread(t) ==
    /\ cbPc[t] = "idle"
    /\ \A u \in CbThreads : cbPc[u] = "idle" => ~ThreadBefore(u, t)

(* The push channel invokes on_tick_fop_v1(exchange, tick) *)
DeliverTick(t) ==
    /\ FreeThread(t)
    /\ events < MaxEvents
    /\ \E k \in TickInputs :
         /\ cbEvt' = [cbEvt EXCEPT ![t] =
                        [kind |-> "tick", code |-> k.code, price |-> k.price,
                         oid |-> NoId]]
         /\ qualArmed' = (qualArmed \/ ArmedAt(k.code, k.price))
    /\ unarmedTick' = (unarmedTick \/ ~(is_running /\ tp_order_id # NoId))
    /\ cbPc' = [cbPc EXCEPT ![t] = "t_guard"]
    /\ events' = events + 1
    /\ cbBorn' = [cbBorn EXCEPT ![t] =
                    [closed |-> position_closed, failed |-> slFailed,
                     aborted |-> (runPc = "aborted")]]
    /\ UNCHANGED <<sideVars, qmVars, stratVars, flagVars, runVars, cbLoc, gwVars, notes,
                   nTrigger, nCancelCalls, nCancelReq, nSlSubmit, nClosed,
                   slFailed, fillsDelivered, fillArmed, ignored>>

(* The guards, the price comparison and the "Stop Loss Triggered" notice *)
TickCheck(t) ==
    /\ cbPc[t] = "t_guard"
    /\ IF \/ TickGuard(position_closed, is_running)
          \/ cbEvt[t].code # symbol
          \/ ~StopHit(direction, cbEvt[t].price, sl_price)
       THEN /\ Back(t)
            /\ ignored' = ignored \cup IgnoredTags(t)
            /\ UNCHANGED notes
       ELSE /\ \E send \in SendResults :
                  NotifyThen(t, "Stop Loss Triggered", send, "t_trig", cbLoc)
            /\ UNCHANGED ignored
    /\ UNCHANGED <<sideVars, qmVars, stratVars, flagVars, runVars, gwVars, events, nTrigger,
                   nCancelCalls, nCancelReq, nSlSubmit, nClosed, slFailed,
                   fillsDelivered, fillArmed, qualArmed, unarmedTick>>

(* Mutant: position_closed is not set on entry *)
TickTrigger_noClose(t) ==
    /\ cbPc[t] = "t_trig"
    /\ nTrigger' = nTrigger + 1
    /\ \E send \in SendResults :
         LET loc == [cbLoc EXCEPT ![t].tp = tp_order_id] IN
         IF tp_order_id # NoId
         THEN NotifyThen(t, "Cancelling TP", send, "t_cancel", loc)
         ELSE NotifyThen(t, "Executing SL Market Order", send, "t_place", loc)
    /\ UNCHANGED <<sideVars, qmVars, stratVars, flagVars, runVars, gwVars, events,
                   nCancelCalls, nCancelReq, nSlSubmit, nClosed, slFailed,
                   fillsDelivered, fillArmed, qualArmed, unarmedTick, ignored>>

(* _trigger_sl_execution: position_closed = True; if self.tp_order_id: ... *)
TickTrigger(t) ==
    /\ cbPc[t] = "t_trig"
    /\ position_closed' = TRUE
    /\ nTrigger' = nTrigger + 1
    /\ \E send \in SendResults :
         LET loc == [cbLoc EXCEPT ![t].tp = tp_order_id] IN
         IF tp_order_id # NoId
         THEN NotifyThen(t, "Cancelling TP", send, "t_cancel", loc)
         ELSE NotifyThen(t, "Executing SL Market Order", send, "t_place", loc)
    /\ UNCHANGED <<sideVars, qmVars, stratVars, is_running, tp_order_id, sl_order_id, runVars,
                   gwVars, events, nCancelCalls, nCancelReq, nSlSubmit,
                   nClosed, slFailed, fillsDelivered, fillArmed, qualArmed, unarmedTick, ignored>>

(* Mutant: an id missing from the list raises, as update_order_price does *)
CancelOutcome_raiseAbsent(raised, listed) ==
    IF raised \/ ~listed THEN "raised" ELSE "sent"

(* OrderManager.cancel_order: a gateway call raises; or the id is not in   *)
(* the refreshed list: warning and return; or the cancel request is sent.  *)
CancelOutcome(raised, listed) ==
    IF raised THEN "raised"
    ELSE IF listed THEN "sent"
    ELSE "notfound"

(* OrderManager.cancel_order: the cancel requests the call sends *)
CancelRequests(outcome) == IF outcome = "sent" THEN 1 ELSE 0

(* OrderManager.cancel_order(tp_order_id): update_status or list_trades may *)
(* raise; an order missing from list_trades() is a warning and a return;   *)
(* otherwise the cancel request goes to the gateway.  A live order is      *)
(* always listed; a terminal one may have left the list.                   *)
TickCancel(t) ==
    /\ cbPc[t] = "t_cancel"
    /\ nCancelCalls' = nCancelCalls + 1
    /\ LET id == cbLoc[t].tp IN
       \E raised \in BOOLEAN, listed \in BOOLEAN :
         LET outcome == CancelOutcome(raised, listed) IN
         /\ orders[id].status = "live" => listed
         /\ nCancelReq' = nCancelReq + CancelRequests(outcome)
         /\ orders' = IF outcome = "sent" /\ orders[id].status = "live"
                      THEN [orders EXCEPT ![id].status = "cancelled"]
                      ELSE orders
         /\ LET loc == [cbLoc EXCEPT ![t].cancel = outcome,
                                     ![t].listed = IF raised THEN "none"
                                                   ELSE IF listed THEN "yes"
                                                   ELSE "no"]
            IN IF AfterCancel(outcome) = "t_place"
               THEN \E send \in SendResults :
                       NotifyThen(t, "Executing SL Market Order", send,
                                  "t_place", loc)
               ELSE /\ cbPc' = [cbPc EXCEPT ![t] = AfterCancel(outcome)]
                    /\ cbLoc' = loc
                    /\ UNCHANGED <<notes, cbEvt, cbBorn>>
    /\ UNCHANGED <<sideVars, qmVars, stratVars, flagVars, runVars, gwPosition,
                   pendingFills, subscribed, events, nTrigger, nSlSubmit,
                   nClosed, slFailed, fillsDelivered, fillArmed, qualArmed, unarmedTick, ignored>>

(* place_futures_order(MKT, ROD) for the full quantity; a failure is       *)
(* notified and swallowed.  The price argument is the tick price, which a  *)
(* market order does not use: the order record carries MktPrice instead.   *)
TickPlace(t) ==
    /\ cbPc[t] = "t_place"
    /\ nSlSubmit' = nSlSubmit + 1
    /\ \E ok \in BOOLEAN :
         IF ok
         THEN /\ orders' = Append(orders,
                     FuturesOrder("sl", SlAction(direction), MktPrice,
                                  qty, "MKT"))
              /\ cbLoc' = [cbLoc EXCEPT ![t].sl = Len(orders) + 1]
              /\ cbPc' = [cbPc EXCEPT ![t] = "t_store"]
              /\ UNCHANGED <<cbEvt, cbBorn, notes, slFailed>>
         ELSE /\ notes' = notes \cup {"SL Order Execution Failed"}
              /\ slFailed' = TRUE
              /\ Back(t)
              /\ UNCHANGED orders
    /\ UNCHANGED <<sideVars, qmVars, stratVars, flagVars, runVars, gwPosition, pendingFills,
                   subscribed, events, nTrigger, nCancelCalls, nCancelReq,
                   nClosed, fillsDelivered,
                   fillArmed, qualArmed, unarmedTick, ignored>>

(* self.sl_order_id = trade.status.id, then the "SL Order Sent" notice *)
TickStore(t) ==
    /\ cbPc[t] = "t_store"
    /\ sl_order_id' = cbLoc[t].sl
    /\ notes' = notes \cup {"SL Order Sent"}
    /\ Back(t)
    /\ UNCHANGED <<sideVars, qmVars, stratVars, is_running, position_closed, tp_order_id,
                   runVars, gwVars, histVars>>

----------------------------------------------------------------------------
(* The gateway fills a working order and queues its trade notification *)

GatewayFill(i) ==
    /\ i \in DOMAIN orders
    /\ orders[i].status = "live"
    /\ orders' = [orders EXCEPT ![i].status = "filled"]
    /\ pendingFills' = pendingFills \cup {i}
    /\ UNCHANGED <<sideVars, qmVars, stratVars, flagVars, runVars, cbVars, gwPosition,
                   subscribed, notes, histVars>>

----------------------------------------------------------------------------
(* Callback threads: on_trade *)

(* Mutant: the order ids are not compared *)
TradeLeg_anyId(oid, tp, sl) == "tp"

(* on_trade: which leg the notification's order id matches *)
TradeLeg(oid, tp, sl) ==
    IF tp # NoId /\ oid = tp THEN "tp"
    ELSE IF sl # NoId /\ oid = sl THEN "sl"
    ELSE "none"

(* History only: the first fill notification is delivered while the       *)
(* strategy is running with both order ids stored, run() past its last    *)
(* statement and no other callback in progress.                           *)
FirstFillArmed(i) ==
    /\ fillsDelivered = {}
    /\ is_running
    /\ runPc = "crashed"
    /\ tp_order_id # NoId /\ sl_order_id # NoId
    /\ i \in {tp_order_id, sl_order_id}
    /\ \A u \in CbThreads : cbPc[u] = "idle"

(* The push channel invokes on_trade(trade) for a filled order *)
DeliverTrade(t, i) ==
    /\ FreeThread(t)
    /\ events < MaxEvents
    /\ i \in pendingFills
    /\ pendingFills' = pendingFills \ {i}
    /\ cbEvt' = [cbEvt EXCEPT ![t] =
                   [kind |-> "trade", code |-> symbol, price |-> orders[i].price,
                    oid |-> i]]
    /\ cbPc' = [cbPc EXCEPT ![t] = "o_guard"]
    /\ events' = events + 1
    /\ fillsDelivered' = fillsDelivered \cup {TradeLeg(i, tp_order_id, sl_order_id)}
    /\ fillArmed' = (fillArmed \/ FirstFillArmed(i))
    /\ cbBorn' = [cbBorn EXCEPT ![t] =
                    [closed |-> position_closed, failed |-> slFailed,
                     aborted |-> (runPc = "aborted")]]
    /\ UNCHANGED <<sideVars, qmVars, stratVars, flagVars, runVars, cbLoc, gwPosition, orders,
                   subscribed, notes, nTrigger, nCancelCalls, nCancelReq,
                   nSlSubmit, nClosed, slFailed, qualArmed, unarmedTick,
                   ignored>>

(* if not self.is_running: return; then the id comparison and, on a match, *)
(* the notification and the trade record                                   *)
TradeCheck(t) ==
    /\ cbPc[t] = "o_guard"
    /\ LET leg == TradeLeg(cbEvt[t].oid, tp_order_id, sl_order_id) IN
       IF ~is_running \/ leg = "none"
       THEN Back(t) /\ UNCHANGED notes
       ELSE /\ cbPc' = [cbPc EXCEPT ![t] = "o_close"]
            /\ notes' = notes \cup {IF leg = "tp" THEN "Take Profit Executed"
                                    ELSE "Stop Loss Executed"}
            /\ UNCHANGED <<cbEvt, cbLoc, cbBorn>>
    /\ UNCHANGED <<sideVars, qmVars, stratVars, flagVars, runVars, gwVars, histVars>>

(* self.position_closed = True; self.stop() *)
TradeClose(t) ==
    /\ cbPc[t] = "o_close"
    /\ position_closed' = TRUE
    /\ is_running' = FALSE
    /\ nClosed' = nClosed + 1
    /\ Back(t)
    /\ UNCHANGED <<sideVars, qmVars, stratVars, tp_order_id, sl_order_id, runVars, gwVars,
                   notes, events, nTrigger, nCancelCalls, nCancelReq,
                   nSlSubmit, slFailed, fillsDelivered, fillArmed, qualArmed, unarmedTick, ignored>>

----------------------------------------------------------------------------
(* QuoteManager (data/quote.py): the main thread subscribes, unsubscribes   *)
(* and polls; the gateway's push thread runs _on_tick_handler.             *)

strategySide == <<sideVars, stratVars, flagVars, runVars, cbVars, gwVars, notes, histVars>>

(* _get_df: the columns selected from tick.to_dict(); src is history only  *)
(* and tells a live row from a backfilled one.                             *)
ToRow(tick) == [code |-> tick.code, datetime |-> tick.datetime, src |-> "live"]

RECURSIVE ToRows(_)
ToRows(ticks) ==
    IF ticks = <<>> THEN <<>>
    ELSE <<ToRow(Head(ticks))>> \o ToRows(Tail(ticks))

(* fetch_ticks: the day's ticks of the contract, in timestamp order *)
FetchTicks(code) ==
    LET Stamp(i) == [code |-> code, datetime |-> i] \in history
        stamps == SelectSeq([i \in 1..MaxTicks |-> i], Stamp)
    IN [k \in 1..Len(stamps) |->
           [code |-> code, datetime |-> stamps[k], src |-> "hist"]]

(* Mutant: the fetched rows are merged without the overlap filter *)
RecoverMerge_noFilter(df, fetched, pending, code) == df \o fetched

(* _recover_ticks: drop the fetched rows that overlap the live ticks still *)
(* waiting in self._ticks, then vstack onto the accumulated frame.         *)
RecoverMerge(df, fetched, pending, code) ==
    LET OfCode(t) == t.code = code
        code_ticks == SelectSeq(pending, OfCode)
        Before(r) == r.datetime < code_ticks[1].datetime
    IN IF fetched = <<>> THEN df
       ELSE IF code_ticks # <<>> THEN df \o SelectSeq(fetched, Before)
       ELSE df \o fetched

(* Mutant: the active set is not consulted *)
SubscribeSkips_noActive(found, code, active) == ~found

(* _subscribe: if contract is None or code in self._subscribed[m]: continue *)
SubscribeSkips(found, code, active) == ~found \/ code \in active

(* The market produces a tick; the gateway pushes it when it holds a       *)
(* subscription for the instrument.                                        *)
MarketTick(c) ==
    /\ Cardinality(history) < MaxTicks
    /\ LET tick == [code |-> c, datetime |-> Cardinality(history) + 1] IN
         /\ history' = history \cup {tick}
         /\ inflight' = IF gwSubs[c] > 0 THEN Append(inflight, tick) ELSE inflight
    /\ UNCHANGED <<strategySide, _ticks, _df, _subscribed, listId, qmMain, qmCb,
                   gwSubs, arrived, nFetch, nCalls, lastOp, lateWrite, nStop>>

(* _subscribe for one code: lookup, guard, gateway subscribe, registry add *)
SubscribeCall(m, c, recover) ==
    /\ qmMain.pc = "idle"
    /\ nCalls < MaxCalls
    /\ nCalls' = nCalls + 1
    /\ \E found \in BOOLEAN :
         IF SubscribeSkips(found, c, _subscribed[m])
         THEN /\ lastOp' = IF c \in _subscribed[m] THEN "subscribe_active"
                           ELSE "subscribe_nocontract"
              /\ UNCHANGED <<_subscribed, gwSubs, qmMain>>
         ELSE /\ gwSubs' = [gwSubs EXCEPT ![c] = @ + 1]
              /\ _subscribed' = [_subscribed EXCEPT ![m] = @ \cup {c}]
              /\ lastOp' = "subscribe"
              /\ qmMain' = IF recover
                           THEN [pc |-> "recover", market |-> m, code |-> c,
                                 held |-> <<>>]
                           ELSE QmIdle
    /\ UNCHANGED <<strategySide, _ticks, _df, listId, qmCb, history, inflight,
                   arrived, nFetch, lateWrite, nStop>>

(* _recover_ticks(code, contract, market_type) *)
RecoverTicks ==
    /\ qmMain.pc = "recover"
    /\ nFetch' = nFetch + 1
    /\ _df' = [_df EXCEPT ![qmMain.market] =
                 RecoverMerge(@, FetchTicks(qmMain.code), _ticks[qmMain.market],
                              qmMain.code)]
    /\ qmMain' = QmIdle
    /\ UNCHANGED <<strategySide, _ticks, _subscribed, listId, qmCb, gwSubs,
                   history, inflight, arrived, nCalls, lastOp, lateWrite, nStop>>

(* _unsubscribe for one code *)
UnsubscribeCall(m, c) ==
    /\ qmMain.pc = "idle"
    /\ nCalls < MaxCalls
    /\ nCalls' = nCalls + 1
    /\ IF c \notin _subscribed[m]
       THEN /\ lastOp' = "unsubscribe_inactive"
            /\ UNCHANGED <<_subscribed, gwSubs>>
       ELSE \E found \in BOOLEAN :
            /\ gwSubs' = IF found THEN [gwSubs EXCEPT ![c] = @ - 1] ELSE gwSubs
            /\ _subscribed' = [_subscribed EXCEPT ![m] = @ \ {c}]
            /\ lastOp' = IF found THEN "unsubscribe" ELSE "unsubscribe_nocontract"
    /\ UNCHANGED <<strategySide, _ticks, _df, listId, qmMain, qmCb, history,
                   inflight, arrived, nFetch, lateWrite, nStop>>

(* _unsubscribe_all: one lookup per active code, then clear() *)
UnsubscribeAllCall(m) ==
    /\ qmMain.pc = "idle"
    /\ nCalls < MaxCalls
    /\ nCalls' = nCalls + 1
    /\ \E found \in SUBSET _subscribed[m] :
         /\ gwSubs' = [c \in QmCodes |->
                          IF c \in found THEN gwSubs[c] - 1 ELSE gwSubs[c]]
         /\ lastOp' = IF found = _subscribed[m] THEN "unsubscribe_all"
                      ELSE "unsubscribe_all_nocontract"
    /\ _subscribed' = [_subscribed EXCEPT ![m] = {}]
    /\ UNCHANGED <<strategySide, _ticks, _df, listId, qmMain, qmCb, history,
                   inflight, arrived, nFetch, lateWrite, nStop>>

(* _get_df: ticks = self._ticks[m]; self._ticks[m] = [] *)
GetDfSwap(m) ==
    /\ qmMain.pc = "idle"
    /\ nCalls < MaxCalls
    /\ nCalls' = nCalls + 1
    /\ qmMain' = [pc |-> "drain", market |-> m, code |-> None, held |-> _ticks[m]]
    /\ _ticks' = [_ticks EXCEPT ![m] = <<>>]
    /\ listId' = [listId EXCEPT ![m] = @ + 1]
    /\ lastOp' = "get_df"
    /\ UNCHANGED <<strategySide, _df, _subscribed, qmCb, gwSubs, history,
                   inflight, arrived, nFetch, lateWrite, nStop>>

(* _get_df: if ticks: build the frame and vstack; return self._df[m] *)
GetDfDrain ==
    /\ qmMain.pc = "drain"
    /\ _df' = [_df EXCEPT ![qmMain.market] = @ \o ToRows(qmMain.held)]
    /\ qmMain' = QmIdle
    /\ UNCHANGED <<strategySide, _ticks, _subscribed, listId, qmCb, gwSubs,
                   history, inflight, arrived, nFetch, nCalls, lastOp,
                   lateWrite, nStop>>

(* History only: the code is not active and the gateway holds no          *)
(* subscription for it.                                                    *)
Unsubscribed(c) == c \notin _subscribed[MarketOf(c)] /\ gwSubs[c] = 0

(* _on_tick_handler: the push thread evaluates self._ticks[market_type],   *)
(* a reference to the list object that is in the dict at that moment.      *)
TickLoad ==
    /\ qmCb.pc = "idle"
    /\ inflight # <<>>
    /\ LET tick == Head(inflight)
           m == MarketOf(tick.code)
       IN /\ qmCb' = [pc |-> "loaded", tick |-> tick, ref |-> listId[m]]
          /\ arrived' = [arrived EXCEPT ![m] = Append(@, tick)]
    /\ inflight' = Tail(inflight)
    /\ UNCHANGED <<strategySide, _ticks, _df, _subscribed, listId, qmMain,
                   gwSubs, history, nFetch, nCalls, lastOp, lateWrite, nStop>>

(* _on_tick_handler: .append(tick) on the list object it loaded: the list  *)
(* still in the dict, the list _get_df is holding, or a list already       *)
(* converted and dropped.                                                  *)
TickAppend ==
    /\ qmCb.pc = "loaded"
    /\ LET tick == qmCb.tick
           m == MarketOf(tick.code)
       IN IF qmCb.ref = listId[m]
          THEN /\ _ticks' = [_ticks EXCEPT ![m] = Append(@, tick)]
               /\ lateWrite' = (lateWrite \/ Unsubscribed(tick.code))
               /\ UNCHANGED qmMain
          ELSE IF qmMain.pc = "drain" /\ qmMain.market = m
                  /\ qmCb.ref = listId[m] - 1
          THEN /\ qmMain' = [qmMain EXCEPT !.held = Append(@, tick)]
               /\ lateWrite' = (lateWrite \/ Unsubscribed(tick.code))
               /\ UNCHANGED _ticks
          ELSE UNCHANGED <<_ticks, qmMain, lateWrite>>
    /\ qmCb' = CbIdle
    /\ UNCHANGED <<strategySide, _df, _subscribed, listId, gwSubs, history,
                   inflight, arrived, nFetch, nCalls, lastOp, nStop>>

(* StopLossStrategy.stop(), called on the strategy object by its owner *)
Stop ==
    /\ nStop < MaxStops
    /\ nStop' = nStop + 1
    /\ is_running' = FALSE
    /\ UNCHANGED <<sideVars, stratVars, position_closed, tp_order_id, sl_order_id,
                   runVars, cbVars, gwVars, notes, histVars,
                   _ticks, _df, _subscribed, listId, qmMain, qmCb, gwSubs,
                   history, inflight, arrived, nFetch, nCalls, lastOp, lateWrite>>

----------------------------------------------------------------------------
(* Specifications *)

AllIdle == \A t \in CbThreads : cbPc[t] = "idle"

RunStep ==
    \/ RunStart
    \/ RunVerify
    \/ RunAbortStop
    \/ RunPlaceTp
    \/ RunStoreTp
    \/ RunSubscribe
    \/ RunInterrupt

CallbackStep(t) ==
    \/ TickCheck(t)
    \/ TickTrigger(t)
    \/ TickCancel(t)
    \/ TickPlace(t)
    \/ TickStore(t)
    \/ TradeCheck(t)
    \/ TradeClose(t)

(* Callbacks may be delivered on several threads at once. *)
Next ==
    \/ RunStep
    \/ \E i \in 1..(MaxEvents + 1) : GatewayFill(i)
    \/ \E t \in CbThreads : DeliverTick(t)
    \/ \E t \in CbThreads, i \in 1..(MaxEvents + 1) : DeliverTrade(t, i)
    \/ \E t \in CbThreads : CallbackStep(t)

Spec == Init /\ [][Next]_vars

(* Callbacks are delivered one after another: the next one starts only    *)
(* when the previous one has returned.  run() is still its own thread.    *)
NextSeq ==
    \/ RunStep
    \/ \E i \in 1..(MaxEvents + 1) : GatewayFill(i)
    \/ \E t \in CbThreads : AllIdle /\ DeliverTick(t)
    \/ \E t \in CbThreads, i \in 1..(MaxEvents + 1) : AllIdle /\ DeliverTrade(t, i)
    \/ \E t \in CbThreads : CallbackStep(t)

SeqSpec == Init /\ [][NextSeq]_vars

(* Sequential callbacks while the Telegram channel is unreliable *)
NotifySpec == NotifyInit /\ [][NextSeq]_vars

(* The quote manager with its gateway channel; the strategy stays as       *)
(* constructed.                                                            *)
QmSpecInit ==
    /\ Init
    /\ qty = 1 /\ direction = "long" /\ gwPosition = NoPosition

QmNext ==
    \/ \E c \in TickCodes : MarketTick(c)
    \/ \E m \in Markets, c \in QmCodes, recover \in BOOLEAN :
          c \in CodesOf(m) /\ SubscribeCall(m, c, recover)
    \/ RecoverTicks
    \/ \E m \in Markets, c \in QmCodes : c \in CodesOf(m) /\ UnsubscribeCall(m, c)
    \/ \E m \in Markets : UnsubscribeAllCall(m)
    \/ \E m \in Markets : GetDfSwap(m)
    \/ GetDfDrain
    \/ TickLoad
    \/ TickAppend

QmSpec == QmSpecInit /\ [][QmNext]_vars

(* run() on the main thread, the owner of the strategy calling stop() at   *)
(* any moment, and the strategy's symbol subscribed and unsubscribed at    *)
(* the quote manager the strategy holds.                                   *)
StopNext ==
    \/ RunStep
    \/ Stop
    \/ \E recover \in BOOLEAN : SubscribeCall("fop", Symbol, recover)
    \/ RecoverTicks
    \/ UnsubscribeCall("fop", Symbol)

StopSpec == Init /\ [][StopNext]_vars

----------------------------------------------------------------------------
(* Properties *)

TriggerPcs == {"t_trig", "t_cancel", "t_place", "t_store"}
PastVerifyPcs == {"place_tp", "tp_store", "subscribe", "monitor", "crashed"}

(* C1: under concurrently delivered tick callbacks whose prices satisfy    *)
(* the stop condition, the trigger happens once: at most one take-profit   *)
(* cancel request and at most one stop-loss market order are submitted.    *)
(* Stated for tick callbacks delivered while the strategy is running with  *)
(* its take-profit order stored.                                           *)
C1_TriggerOnceConcurrent ==
    ~unarmedTick =>
        /\ nTrigger <= 1
        /\ nCancelCalls <= 1
        /\ nSlSubmit <= 1

(* C2: with tick callbacks delivered one after another, the trigger fires  *)
(* at most once; it fires on the first tick for the symbol that satisfies  *)
(* the stop condition while the strategy is running with the position      *)
(* open; and a tick delivered after position_closed was set never enters   *)
(* the trigger path (no further cancel, no further market order).          *)
C2_TriggerOnceSequential ==
    /\ nTrigger <= 1 /\ nCancelCalls <= 1 /\ nSlSubmit <= 1
    /\ (qualArmed /\ AllIdle) => (nTrigger = 1 /\ nSlSubmit = 1)
    /\ \A t \in CbThreads : cbBorn[t].closed => cbPc[t] \notin TriggerPcs

(* A qualifying tick was delivered after the trigger had fired, and was    *)
(* ignored.                                                                *)
C2_Witness ==
    /\ nTrigger = 1 /\ nSlSubmit = 1 /\ qualArmed
    /\ "closed" \in ignored
    /\ AllIdle

(* C3: when the fill notifications of both the take-profit order and the   *)
(* stop order are delivered, exactly one fill closes the position and the  *)
(* second fill produces one anomaly report.  on_trade has no branch that   *)
(* reports an anomaly: no title it passes to notify() names one.           *)
AnomalyReports == Cardinality(notes \cap {"Anomaly"})

C3_OneCloseOneAnomaly ==
    (fillArmed /\ ~unarmedTick /\ {"tp", "sl"} \subseteq fillsDelivered /\ AllIdle)
        => (nClosed = 1 /\ AnomalyReports = 1)

(* C4: when the gateway reports no position, or one smaller than the       *)
(* requested quantity, run() never gets past the position check: it places *)
(* no take-profit order, stores no order id and makes no subscription; it  *)
(* ends aborted and inactive; and no callback delivered after the abort    *)
(* enters the trigger path.                                                *)
NoOrShortPosition ==
    gwPosition = NoPosition \/ Abs(gwPosition.quantity) < qty

HeldDirection(position) ==
    IF position.direction = "Buy" THEN "long" ELSE "short"

C5_MismatchAborts ==
    (gwPosition # NoPosition /\ HeldDirection(gwPosition) # direction)
        => (TpOrderIds = {} /\ runPc \notin {"subscribe", "monitor", "crashed"})

(* C6: after a successful position check exactly one take-profit limit     *)
(* order is placed, opposite to the position direction, at tp_price for    *)
(* the requested quantity, and its id is stored; a failed placement leaves *)
(* the strategy inactive with tp_order_id unset and unsubscribed.          *)
ClosingAction(position) ==
    IF HeldDirection(position) = "long" THEN "Sell" ELSE "Buy"

C6_TakeProfitOrder ==
    /\ Cardinality(TpOrderIds) <= 1
    /\ runPc \in {"tp_store", "subscribe", "monitor", "crashed"}
         => Cardinality(TpOrderIds) = 1
    /\ \A i \in TpOrderIds :
         /\ orders[i].action = ClosingAction(gwPosition)
         /\ orders[i].price = tp_price
         /\ orders[i].qty = qty
         /\ orders[i].ptype = "LMT"
    /\ runPc \in {"subscribe", "monitor", "crashed"} => tp_order_id \in TpOrderIds
    /\ (runPc = "aborted" /\ abortReason = "TP placement failed")
         => (~is_running /\ tp_order_id = NoId /\ subscribed = {})

(* C7: after the take-profit order has been placed and stored, run() is at *)
(* the subscribe call, has subscribed and is in the monitoring loop, or    *)
(* was stopped; it never ends otherwise with the order left unmonitored.   *)
C7_ReachesMonitoring ==
    tp_order_id # NoId =>
        \/ runPc = "subscribe"
        \/ runPc = "monitor" /\ symbol \in subscribed
        \/ runPc = "stopped"

(* C8: a tick for the symbol, handled while the strategy is running with   *)
(* the position open, enters the trigger path exactly when                 *)
(* (long and price <= stop) or (short and price >= stop); every stop order *)
(* is a market order for the full quantity, Sell for long, Buy for short.  *)
C8_StopComparison ==
    [][ /\ \A t \in CbThreads :
             ( /\ cbPc[t] = "t_guard" /\ cbPc'[t] # "t_guard"
               /\ cbEvt[t].code = symbol
               /\ is_running /\ ~position_closed )
             => ( cbPc'[t] = "t_trig"
                    <=> StopCondition(direction, cbEvt[t].price, sl_price) )
        /\ \A i \in DOMAIN orders' :
             orders'[i].leg = "sl" =>
                 /\ orders'[i].action = (IF direction = "long" THEN "Sell" ELSE "Buy")
                 /\ orders'[i].ptype = "MKT"
                 /\ orders'[i].qty = qty
      ]_vars

(* A tick priced exactly at the stop price led to a stop order. *)
C8_Witness ==
    \E t \in CbThreads :
        /\ cbPc[t] = "t_store"
        /\ cbEvt[t].price = sl_price
        /\ orders[cbLoc[t].sl].leg = "sl"

(* C9: in a trigger that found a stored take-profit id, cancel_order was   *)
(* called before the stop order is submitted; and every trigger submits    *)
(* the stop market order for the full quantity, whether the cancel was     *)
(* sent, raised, or did not find the order.                                *)
C9_CancelThenStop ==
    /\ \A t \in CbThreads :
         /\ (cbPc[t] \in {"t_place", "t_store"} /\ cbLoc[t].tp # NoId)
              => cbLoc[t].cancel \in {"sent", "raised", "notfound"}
         /\ cbPc[t] = "t_cancel" => nSlSubmit < nTrigger
         /\ cbPc[t] = "t_store" =>
              /\ orders[cbLoc[t].sl].ptype = "MKT"
              /\ orders[cbLoc[t].sl].qty = qty
    /\ nCancelCalls <= nTrigger
    /\ AllIdle => nSlSubmit = nTrigger

(* The cancel raised, or found the order gone, and the stop order was      *)
(* still submitted.                                                        *)
C9_Witness ==
    /\ \E t \in CbThreads :
         cbPc[t] = "t_store" /\ cbLoc[t].cancel = "raised"
    /\ nCancelCalls = 1 /\ nSlSubmit = 1

(* C10: once a stop order submission has failed, the failure has been      *)
(* notified, position_closed stays set, and no tick delivered afterwards   *)
(* enters the trigger path: there is no second submission attempt.         *)
C10_NoRetryAfterFailure ==
    slFailed =>
        /\ position_closed
        /\ "SL Order Execution Failed" \in notes
        /\ \A t \in CbThreads : cbBorn[t].failed => cbPc[t] \notin TriggerPcs
        /\ nSlSubmit = 1

(* The submission failed and a later qualifying tick was ignored. *)
C10_Witness ==
    /\ slFailed
    /\ "failed" \in ignored
    /\ nSlSubmit = 1
    /\ SlOrderIds = {}

(* C11: stop() unsubscribes the strategy's tick subscription and marks the *)
(* strategy inactive, from every state; a second stop() changes nothing.   *)
(* Every stop() step ends with is_running false; a stop() of a running    *)
(* strategy ends with the strategy's symbol neither in the quote manager's *)
(* active set nor subscribed at the gateway; a stop() of an inactive       *)
(* strategy leaves every field as it was.                                  *)
C11_StopUnsubscribes ==
    [][ Stop =>
          /\ ~is_running'
          /\ is_running =>
               (symbol \notin _subscribed'["fop"] /\ gwSubs'[symbol] = 0)
          /\ ~is_running =>
               UNCHANGED <<stratVars, flagVars, runVars, _ticks, _df, _subscribed>>
      ]_vars

(* The accumulated series of one instrument: its rows of self._df[m] *)
SeriesOf(m, c) ==
    LET OfCode(r) == r.code = c IN SelectSeq(_df[m], OfCode)

StrictlyIncreasing(rows) ==
    \A i, j \in DOMAIN rows : i < j => rows[i].datetime < rows[j].datetime

(* C12: after any interleaving of live tick callbacks, polls and           *)
(* subscribe-with-recover calls, the accumulated series of each instrument *)
(* is non-decreasing in timestamp and has no two rows with the same        *)
(* timestamp.                                                              *)
C12_SeriesOrdered ==
    \A m \in Markets : \A c \in CodesOf(m) : StrictlyIncreasing(SeriesOf(m, c))

(* The live rows of self._df[m], as the ticks they were built from *)
LiveTicks(m) ==
    LET Live(r) == r.src = "live"
        rows == SelectSeq(_df[m], Live)
    IN [k \in 1..Len(rows) |->
           [code |-> rows[k].code, datetime |-> rows[k].datetime]]

(* C13: every live tick the push callback delivered appears exactly once,  *)
(* in arrival order, in the accumulated series a later poll returns: when  *)
(* the handler and the poll have both returned and nothing waits in        *)
(* self._ticks, the live rows of the frame are the arrived ticks in order. *)
C13_NoTickLost ==
    \A m \in Markets :
        (qmCb.pc = "idle" /\ qmMain.pc = "idle" /\ _ticks[m] = <<>>)
            => LiveTicks(m) = arrived[m]

(* C14: a subscribe call for a code that is already active changes neither *)
(* the active set nor the gateway's subscriptions, makes no historical     *)
(* fetch (also with recover set) and leaves the tick buffer and the        *)
(* accumulated frame as they were.                                         *)
C14_ResubscribeNoOp ==
    [][ \A m \in Markets : \A c \in CodesOf(m) : \A recover \in BOOLEAN :
          (c \in _subscribed[m] /\ SubscribeCall(m, c, recover))
              => /\ UNCHANGED <<_subscribed, gwSubs, nFetch, _ticks, _df>>
                 /\ qmMain' = QmIdle
      ]_vars

(* An active code was subscribed again, after its backfill was fetched. *)
C14_Witness ==
    /\ lastOp = "subscribe_active"
    /\ nFetch = 1
    /\ \E m \in Markets : _subscribed[m] # {} /\ _df[m] # <<>>
    /\ qmMain.pc = "idle"

(* C15: after every sequence of subscribe, unsubscribe and unsubscribe_all *)
(* calls, a code is active for its market exactly when the gateway holds   *)
(* one outstanding tick subscription for it: gateway subscribe calls minus *)
(* gateway unsubscribe calls is 1 for an active code and 0 otherwise,      *)
(* whatever the contract lookups returned.                                 *)
C15_RegistryMatchesGateway ==
    \A m \in Markets : \A c \in CodesOf(m) :
        gwSubs[c] = (IF c \in _subscribed[m] THEN 1 ELSE 0)

(* C16: unsubscribe for a code that is not active changes nothing and      *)
(* makes no gateway call; for an active code it makes one gateway          *)
(* unsubscribe call and removes the code from the active set.              *)
C16_UnsubscribeEffect ==
    [][ \A m \in Markets : \A c \in CodesOf(m) :
          UnsubscribeCall(m, c) =>
              /\ UNCHANGED <<_ticks, _df, nFetch>>
              /\ IF c \in _subscribed[m]
                 THEN /\ gwSubs' = [gwSubs EXCEPT ![c] = @ - 1]
                      /\ _subscribed' = [_subscribed EXCEPT ![m] = @ \ {c}]
                 ELSE UNCHANGED <<gwSubs, _subscribed>>
      ]_vars

(* C17: after unsubscribe_all for a market class its active set is empty,  *)
(* one gateway unsubscribe was issued for each code that was active, and   *)
(* the other market class's active set is unchanged.                       *)
C17_UnsubscribeAllDrains ==
    [][ \A m \in Markets :
          UnsubscribeAllCall(m) =>
              /\ _subscribed'[m] = {}
              /\ \A c \in QmCodes :
                   gwSubs'[c] = gwSubs[c] - (IF c \in _subscribed[m] THEN 1 ELSE 0)
              /\ \A o \in Markets \ {m} : _subscribed'[o] = _subscribed[o]
      ]_vars

(* C18: after a code has been unsubscribed, a tick for that code delivered *)
(* by the push callback does not change the tick buffer: the handler never *)
(* appends a tick whose code is not active and not subscribed any more.    *)
C18_NoWriteAfterUnsubscribe == ~lateWrite

(* The titles on_tick_fop_v1, _trigger_sl_execution and on_trade pass to   *)
(* self.notifier.notify                                                    *)
CallbackNotices ==
    {"Stop Loss Triggered", "Cancelling TP", "Executing SL Market Order",
     "SL Order Sent", "SL Order Execution Failed", "Take Profit Executed",
     "Stop Loss Executed"}

(* C19: the push-callback paths make no blocking call: no callback thread  *)
(* calls the gateway (cancel_order, place_futures_order) or the            *)
(* notification channel.  Stated for callbacks delivered while the         *)
(* strategy is running with its take-profit order stored.                  *)
C19_CallbacksDoNotBlock ==
    ~unarmedTick =>
        /\ nCancelCalls = 0
        /\ nSlSubmit = 0
        /\ notes \cap CallbackNotices = {}

(* C20: cancel_order for an id that is absent from the refreshed order     *)
(* list returns normally, without raising and without sending a cancel     *)
(* request; for an id that is present it sends exactly one cancel request  *)
(* for that order.                                                         *)
C20_CancelAbsentIsQuiet ==
    [][ \A t \in CbThreads :
          TickCancel(t) =>
              /\ cbLoc'[t].listed = "no" =>
                   /\ cbLoc'[t].cancel = "notfound"
                   /\ cbPc'[t] = "t_place"
                   /\ nCancelReq' = nCancelReq
                   /\ orders' = orders
              /\ cbLoc'[t].listed = "yes" =>
                   /\ cbLoc'[t].cancel = "sent"
                   /\ nCancelReq' = nCancelReq + 1
                   /\ \A i \in DOMAIN orders :
                        i # cbLoc[t].tp => orders'[i] = orders[i]
      ]_vars

(* cancel_order did not find the filled take-profit order and returned. *)
C20_Witness ==
    \E t \in CbThreads :
        /\ cbPc[t] = "t_place"
        /\ cbLoc[t].listed = "no"
        /\ orders[cbLoc[t].tp].status = "filled"
        /\ nCancelCalls = 1 /\ nCancelReq = 0

----------------------------------------------------------------------------
----------------------------------------------------------------------------
(* Order commands (trading/order.py, main.py, core/telegram_bot.py): the   *)
(* command line and the bot call OrderManager one command at a time; the   *)
(* gateway moves the orders through their statuses in between.             *)

MaxOrders == 1

OrderIds == 1..(MaxOrders + 1)

(* _cmd_list: active_statuses *)
active_statuses == {"PendingSubmit", "PreSubmitted", "Submitted", "PartFilled"}

(* The public methods of OrderManager *)
OrderManagerMethods ==
    {"place_stock_order", "place_futures_order", "update_status",
     "list_trades", "update_order_price", "cancel_order",
     "get_futures_position"}

(* The statuses the gateway can move an order to *)
StatusAfter(s) ==
    CASE s = "PendingSubmit" -> {"Submitted", "Failed"}
      [] s = "Submitted" -> {"PartFilled", "Filled", "Cancelled"}
      [] s = "PartFilled" -> {"Filled", "Cancelled"}
      [] OTHER -> {}

(* The exchange works on an order.  Every order command starts with       *)
(* update_status(), so the status it reads is the gateway's.               *)
GatewayProgress(i) ==
    /\ i \in DOMAIN trades
    /\ \E s \in StatusAfter(trades[i].status) :
          trades' = [trades EXCEPT ![i].status = s]
    /\ UNCHANGED <<extraVars, coreVars, omOut, botLast, fetchCall, kbarCall>>

(* api.list_trades(): the trades of the session.  An order that is still  *)
(* working is always in it; a terminal one may have left it.               *)
Listings ==
    {L \in SUBSET DOMAIN trades :
        \A i \in DOMAIN trades : trades[i].status \in active_statuses => i \in L}

(* Mutant: the order is submitted whatever the lookup returned *)
PlaceOutcome_noLookup(found) == "submitted"

(* place_*_order: contract = Contracts...[code]; if not contract: raise *)
PlaceOutcome(found) == IF found THEN "submitted" ELSE "ContractNotFound"

(* place_stock_order / place_futures_order, kind is "stock" or "futures" *)
PlaceBody(via, kind, found, price) ==
    LET id == Len(trades) + 1 IN
    IF PlaceOutcome(found) = "submitted"
    THEN /\ Len(trades) < MaxOrders
         /\ trades' = Append(trades, [status |-> "PendingSubmit",
                                      price |-> price])
         /\ omOut' = [op |-> "place", via |-> via, id |-> id,
                      error |-> None, value |-> {id},
                      count |-> NoCount,
                      sent |-> <<[req |-> "place_order", id |-> id]>>]
    ELSE /\ trades' = trades
         /\ omOut' = [op |-> "place", via |-> via, id |-> NoId,
                      error |-> "ContractNotFound",
                      value |-> {}, count |-> NoCount, sent |-> <<>>]

(* OrderManager.list_trades: update_status(), return api.list_trades() *)
ListTrades(listing) == listing

(* What the caller shows of list_trades(): _cmd_list keeps the trades in   *)
(* active_statuses, list_orders prints every trade.                        *)
Shown(via, ts, listing) ==
    IF via = "bot" THEN {i \in ListTrades(listing) : ts[i].status \in active_statuses}
    ELSE ListTrades(listing)

(* list_orders (command line) and _cmd_list (bot) *)
ListBody(via) ==
    \E listing \in Listings :
       /\ trades' = trades
       /\ omOut' = [op |-> "list", via |-> via, id |-> NoId, error |-> None,
                    value |-> Shown(via, trades, listing),
                    count |-> NoCount, sent |-> <<>>]

(* The gateway changes the price of a working order and rejects the        *)
(* request for any other.                                                  *)
GatewayUpdatePrice(ts, id, price) ==
    IF ts[id].status \in active_statuses THEN [ts EXCEPT ![id].price = price]
    ELSE ts

(* OrderManager.update_order_price *)
UpdateBody(via, id, price) ==
    \E listing \in Listings :
       IF id \notin listing
       THEN /\ trades' = trades
            /\ omOut' = [op |-> "update", via |-> via, id |-> id,
                         error |-> "OrderNotFound",
                         value |-> {}, count |-> NoCount, sent |-> <<>>]
       ELSE /\ trades' = GatewayUpdatePrice(trades, id, price)
            /\ omOut' = [op |-> "update", via |-> via, id |-> id,
                         error |-> None, value |-> {id},
                         count |-> NoCount,
                         sent |-> <<[req |-> "update_order_price", id |-> id]>>]

(* OrderManager.cancel_order called by cancel --id and /cancel *)
CancelBody(via, id) ==
    \E listing \in Listings :
       LET outcome == CancelOutcome(FALSE, id \in listing) IN
       /\ trades' = trades
       /\ omOut' = [op |-> "cancel", via |-> via, id |-> id,
                    error |-> None, value |-> {}, count |-> NoCount,
                    sent |-> IF CancelRequests(outcome) = 1
                             THEN <<[req |-> "cancel", id |-> id]>>
                             ELSE <<>>]

(* cancel --all and /cancelall: count = om.cancel_all_orders().  The       *)
(* attribute lookup on OrderManager raises AttributeError; both callers    *)
(* catch it and report the failure.                                        *)
CancelAllBody(via) ==
    /\ "cancel_all_orders" \notin OrderManagerMethods
    /\ trades' = trades
    /\ omOut' = [op |-> "cancelall", via |-> via, id |-> NoId,
                 error |-> "AttributeError", value |-> {}, count |-> NoCount,
                 sent |-> <<>>]

(* _cmd_help, and the reply to an unknown command *)
ReplyBody(via, text) ==
    /\ trades' = trades
    /\ omOut' = [op |-> text, via |-> via, id |-> NoId, error |-> None,
                 value |-> {}, count |-> NoCount, sent |-> <<>>]

OmFrame == UNCHANGED <<extraVars, coreVars, botLast, fetchCall, kbarCall>>

(* main.py: order, list_orders, update, cancel *)
CliOrder(kind, found, price) == PlaceBody("cli", kind, found, price) /\ OmFrame
CliListOrders == ListBody("cli") /\ OmFrame
CliUpdate(id, price) == UpdateBody("cli", id, price) /\ OmFrame
CliCancel(id) == CancelBody("cli", id) /\ OmFrame
CliCancelAll == CancelAllBody("cli") /\ OmFrame

(* The chat the bot is configured for (TELEGRAM_CHAT_ID, a string) and the *)
(* chats updates come from (message["chat"]["id"], an integer).            *)
tg_chat_id == "1001"
ChatIds == {1001, 2002}
Str(n) == IF n = 1001 THEN "1001" ELSE "2002"

(* Mutant: the chat id is not compared *)
Authorized_any(chat_id) == TRUE

(* run: if chat_id != str(self.tg_chat_id): continue *)
Authorized(chat_id) == Str(chat_id) = tg_chat_id

(* _handle_command *)
HandleCommand(cmd, id, price, kind, found) ==
    \/ cmd = "/help" /\ ReplyBody("bot", cmd)
    \/ cmd = "/list" /\ ListBody("bot")
    \/ cmd = "/cancelall" /\ CancelAllBody("bot")
    \/ cmd = "/cancel" /\ CancelBody("bot", id)
    \/ cmd = "/update" /\ UpdateBody("bot", id, price)
    \/ cmd = "/order" /\ PlaceBody("bot", kind, found, price)

(* TelegramBotManager.run: one update of the polled batch *)
BotUpdate(chat, cmd, id, price, kind, found) ==
    /\ botLast' = [chat |-> chat, handled |-> Authorized(chat)]
    /\ IF Authorized(chat)
       THEN HandleCommand(cmd, id, price, kind, found)
       ELSE UNCHANGED <<trades, omOut>>
    /\ UNCHANGED <<extraVars, coreVars, fetchCall, kbarCall>>

(* Limit prices typed on the command line or in a chat message *)
LimitPrices == SlInputs \cup TpInputs
Kinds == {"stock", "futures"}

(* The commands a chat message can hold, with the arguments each one reads *)
BotTexts ==
    {[cmd |-> c, id |-> NoId, price |-> 0, kind |-> "none", found |-> FALSE] :
        c \in {"/help", "/list", "/cancelall"}}
    \cup {[cmd |-> "/cancel", id |-> i, price |-> 0, kind |-> "none",
           found |-> FALSE] : i \in OrderIds}
    \cup {[cmd |-> "/update", id |-> i, price |-> p, kind |-> "none",
           found |-> FALSE] : i \in OrderIds, p \in LimitPrices}
    \cup {[cmd |-> "/order", id |-> NoId, price |-> p, kind |-> k, found |-> f] :
           p \in LimitPrices, k \in Kinds, f \in BOOLEAN}

OmNext ==
    \/ \E i \in OrderIds : GatewayProgress(i)
    \/ \E kind \in Kinds, found \in BOOLEAN, price \in LimitPrices :
          CliOrder(kind, found, price)
    \/ CliListOrders
    \/ \E id \in OrderIds, price \in LimitPrices : CliUpdate(id, price)
    \/ \E id \in OrderIds : CliCancel(id)
    \/ CliCancelAll
    \/ \E chat \in ChatIds, u \in BotTexts :
          BotUpdate(chat, u.cmd, u.id, u.price, u.kind, u.found)

OmSpec == QmSpecInit /\ [][OmNext]_vars

----------------------------------------------------------------------------
(* Properties of the order commands *)

ActiveIds == {i \in DOMAIN trades : trades[i].status \in active_statuses}

UpdateStep(id, price) ==
    \/ CliUpdate(id, price)
    \/ BotUpdate(1001, "/update", id, price, "none", FALSE)

(* C21: a price update for an order id that is not among the active       *)
(* orders after the refresh (unknown, or already filled, cancelled or      *)
(* rejected) fails with the not-found error and sends no price update to   *)
(* the gateway.                                                            *)
C21_UpdateNeedsActiveOrder ==
    [][ \A id \in OrderIds, price \in LimitPrices :
          (UpdateStep(id, price) /\ id \notin ActiveIds)
             => (omOut'.error = "OrderNotFound" /\ omOut'.sent = <<>>)
      ]_vars

PlaceStep(kind, found, price) ==
    \/ CliOrder(kind, found, price)
    \/ BotUpdate(1001, "/order", NoId, price, kind, found)

(* C22: when the instrument lookup returns nothing, placing an order       *)
(* fails with the contract-not-found error and the gateway's orders are    *)
(* unchanged; otherwise exactly one order is submitted, it is the only     *)
(* new order at the gateway, and its handle is returned.                   *)
C22_PlaceLooksUpFirst ==
    [][ \A kind \in Kinds, found \in BOOLEAN, price \in LimitPrices :
          PlaceStep(kind, found, price) =>
             IF found
             THEN /\ Len(trades') = Len(trades) + 1
                  /\ SubSeq(trades', 1, Len(trades)) = trades
                  /\ trades'[Len(trades')].price = price
                  /\ omOut'.error = None
                  /\ omOut'.sent = <<[req |-> "place_order", id |-> Len(trades')]>>
                  /\ omOut'.value = {Len(trades')}
             ELSE /\ trades' = trades
                  /\ omOut'.error = "ContractNotFound"
                  /\ omOut'.sent = <<>>
                  /\ omOut'.value = {}
      ]_vars

(* One order was placed; the next one failed at the lookup and the        *)
(* gateway still has the one order.                                        *)
C22_Witness ==
    /\ omOut.op = "place"
    /\ omOut.error = "ContractNotFound"
    /\ omOut.sent = <<>>
    /\ Len(trades) = 1

ListStep ==
    \/ CliListOrders
    \/ BotUpdate(1001, "/list", NoId, 0, "none", FALSE)

(* C23: listing the active orders returns exactly the orders whose         *)
(* refreshed status is pending, accepted or partially filled; a filled,    *)
(* cancelled or rejected order is never in the result.                     *)
C23_ListIsActiveOnly ==
    [][ ListStep => omOut'.value = ActiveIds ]_vars

CancelAllStep ==
    \/ CliCancelAll
    \/ BotUpdate(1001, "/cancelall", NoId, 0, "none", FALSE)

(* C30: the cancel-all command sends one cancellation request for every    *)
(* active order and reports the number of requests it sent.                *)
C30_CancelAllCancelsAll ==
    [][ (CancelAllStep /\ ActiveIds # {}) =>
          /\ omOut'.error = None
          /\ omOut'.count = Cardinality(ActiveIds)
          /\ Len(omOut'.sent) = Cardinality(ActiveIds)
          /\ \A i \in ActiveIds :
                \E k \in DOMAIN omOut'.sent :
                   omOut'.sent[k] = [req |-> "cancel", id |-> i]
      ]_vars

(* C28: an update polled from a chat other than the configured one runs    *)
(* no command handler and invokes no order operation: the gateway's        *)
(* orders and the outcome of the last command stay as they were.           *)
C28_OnlyConfiguredChat ==
    [][ \A chat \in ChatIds, u \in BotTexts :
          (Str(chat) # tg_chat_id
             /\ BotUpdate(chat, u.cmd, u.id, u.price, u.kind, u.found))
          => /\ ~botLast'.handled
             /\ trades' = trades
             /\ omOut' = omOut
      ]_vars

(* The last update came from the other chat while an order was working;    *)
(* the order is as the configured chat's /order left it.                   *)
C28_Witness ==
    /\ botLast.chat = 2002
    /\ ~botLast.handled
    /\ omOut.op = "place" /\ omOut.via = "bot" /\ omOut.error = None
    /\ ActiveIds = {1}

----------------------------------------------------------------------------
(* Historical ticks (data/quote.py, fetch_ticks): the gateway answers      *)
(* api.ticks(contract) with the last session's ticks and                   *)
(* api.ticks(contract, date=today) with today's, each in the order the     *)
(* exchange reported them.  Timestamps and the 15:00 cutoff are on one     *)
(* scale.                                                                  *)

MaxTs == 3
MaxFetched == 2
Cutoff == 2
Hours == {14, 15, 23}

TsOrdered(s) == \A i \in 1..(Len(s) - 1) : s[i].ts <= s[i + 1].ts

(* What one api.ticks call can return, src telling the two calls apart *)
GatewayTicks(src) ==
    {s \in UNION {[1..n -> [ts : 1..MaxTs, src : {src}]] : n \in 0..MaxFetched} :
        TsOrdered(s)}

(* Mutant: the wall-clock hour is not consulted *)
NeedsNight_noHour(hour, df_main) ==
    df_main = <<>> \/ df_main[Len(df_main)].ts < Cutoff

(* needs_night = now.hour >= 15 and                                        *)
(*               (df_main.is_empty() or df_main["ts"][-1] < cutoff)        *)
NeedsNight(hour, df_main) ==
    hour >= 15 /\ (df_main = <<>> \/ df_main[Len(df_main)].ts < Cutoff)

(* .unique(subset=["ts"], keep="first") *)
RECURSIVE UniqueFirst(_)
UniqueFirst(df) ==
    IF df = <<>> THEN <<>>
    ELSE LET rest == UniqueFirst(SubSeq(df, 1, Len(df) - 1))
             last == df[Len(df)]
         IN IF \E i \in DOMAIN rest : rest[i].ts = last.ts THEN rest
            ELSE Append(rest, last)

(* .sort("ts") *)
RECURSIVE SortTs(_)
SortTs(df) ==
    IF df = <<>> THEN <<>>
    ELSE LET k == CHOOSE i \in DOMAIN df :
                     /\ \A j \in DOMAIN df : df[i].ts <= df[j].ts
                     /\ \A j \in 1..(i - 1) : df[j].ts > df[i].ts
             Rest(j) == IF j < k THEN df[j] ELSE df[j + 1]
         IN <<df[k]>> \o SortTs([j \in 1..(Len(df) - 1) |-> Rest(j)])

(* fetch_ticks: the second call is made only when needs_night; its result  *)
(* is used only when it has ticks; only then are the two frames            *)
(* concatenated, de-duplicated and sorted, else df = df_main.              *)
FetchResult(hour, ticks_main, ticks_night) ==
    LET df_night == IF NeedsNight(hour, ticks_main) THEN ticks_night ELSE <<>>
    IN IF df_night # <<>> THEN SortTs(UniqueFirst(ticks_main \o df_night))
       ELSE ticks_main

(* One call of fetch_ticks(contract) *)
FetchCall(hour, ticks_main, ticks_night) ==
    /\ fetchCall.calls = 0
    /\ fetchCall' = [hour |-> hour, main |-> ticks_main, night |-> ticks_night,
                     calls |-> IF NeedsNight(hour, ticks_main) THEN 2 ELSE 1,
                     result |-> FetchResult(hour, ticks_main, ticks_night)]
    /\ UNCHANGED <<extraVars, coreVars, trades, omOut, botLast, kbarCall>>

FetchNext ==
    \E hour \in Hours, ticks_main \in GatewayTicks("main"),
       ticks_night \in GatewayTicks("night") :
       FetchCall(hour, ticks_main, ticks_night)

FetchSpec == QmSpecInit /\ [][FetchNext]_vars

(* C25: fetch issues the second (today) fetch exactly when the wall-clock  *)
(* hour is 15 or later and the main-session result is empty or ends        *)
(* before the 15:00 cutoff; in every other case it issues one fetch.       *)
C25_SecondFetchPolicy ==
    fetchCall.calls # 0 =>
       LET main == fetchCall.main
           late == fetchCall.hour >= 15
           gap == main = <<>> \/ main[Len(main)].ts < Cutoff
       IN /\ fetchCall.calls \in {1, 2}
          /\ fetchCall.calls = 2 <=> (late /\ gap)

(* At 15 o'clock a main-session result that ends before the cutoff made    *)
(* the second fetch happen.                                                *)
C25_Witness ==
    /\ fetchCall.hour = 15
    /\ fetchCall.main # <<>>
    /\ fetchCall.main[Len(fetchCall.main)].ts < Cutoff
    /\ fetchCall.calls = 2

(* C26: whatever the second fetch did (not issued, empty, non-empty), the  *)
(* sequence fetch returns is sorted by timestamp without two ticks of the  *)
(* same timestamp, and a timestamp present in both fetches is represented  *)
(* by the main-session record.                                             *)
C26_FetchSortedUnique ==
    fetchCall.calls # 0 =>
       LET r == fetchCall.result IN
       /\ \A i \in 1..(Len(r) - 1) : r[i].ts < r[i + 1].ts
       /\ \A i \in DOMAIN r :
             (\E j \in DOMAIN fetchCall.main : fetchCall.main[j].ts = r[i].ts)
                => r[i].src = "main"

----------------------------------------------------------------------------
(* K-bars (data/quote.py, _aggregate_kbar): a tick frame is grouped by     *)
(* time bucket and code and each group becomes one bar.                    *)

MaxRows == 2
Units == {1, 2}

KbarTimes == {1, 2, 3}
KbarPrices == {1, 2}
TickRows == [datetime : KbarTimes, code : StkCodes, price : KbarPrices, volume : {1}]
Snapshots == UNION {[1..n -> TickRows] : n \in 0..MaxRows}

(* pl.col("datetime").dt.truncate(unit) *)
Truncate(datetime, unit) == datetime - (datetime % unit)

KeyOf(row, unit) == [datetime |-> Truncate(row.datetime, unit), code |-> row.code]

(* group_by(..., maintain_order=True): the groups in the order of their    *)
(* first row                                                               *)
RECURSIVE GroupKeys(_, _)
GroupKeys(df, unit) ==
    IF df = <<>> THEN <<>>
    ELSE LET rest == GroupKeys(SubSeq(df, 1, Len(df) - 1), unit)
             key == KeyOf(df[Len(df)], unit)
         IN IF \E i \in DOMAIN rest : rest[i] = key THEN rest
            ELSE Append(rest, key)

RECURSIVE SumVolume(_)
SumVolume(rows) ==
    IF rows = <<>> THEN 0 ELSE Head(rows).volume + SumVolume(Tail(rows))

(* .agg(first, max, min, last of price; sum of volume) *)
Bar(df, key, unit) ==
    LET InGroup(row) == KeyOf(row, unit) = key
        rows == SelectSeq(df, InGroup)
        prices == {rows[i].price : i \in DOMAIN rows}
    IN [datetime |-> key.datetime, code |-> key.code,
        open |-> rows[1].price,
        high |-> CHOOSE p \in prices : \A q \in prices : q <= p,
        low |-> CHOOSE p \in prices : \A q \in prices : p <= q,
        close |-> rows[Len(rows)].price,
        volume |-> SumVolume(rows)]

(* _aggregate_kbar(df, unit, exprs) with no extra expressions *)
AggregateKbar(df, unit) ==
    LET keys == GroupKeys(df, unit)
    IN [k \in DOMAIN keys |-> Bar(df, keys[k], unit)]

(* Mutant: group_by without maintain_order returns the groups in any order *)
KbarResults_anyOrder(df, unit) ==
    LET bars == AggregateKbar(df, unit)
        n == Len(bars)
    IN {[k \in 1..n |-> bars[p[k]]] :
           p \in {q \in [1..n -> 1..n] : \A a, b \in 1..n : q[a] = q[b] => a = b}}

(* The frames one call of _aggregate_kbar can return *)
KbarResults(df, unit) == {AggregateKbar(df, unit)}

(* The frame that was passed in, as it is after the call: group_by and agg *)
(* build a new frame.                                                      *)
SnapshotAfter(df) == df

(* First aggregation of a snapshot *)
AggregateFirst(df, unit) ==
    /\ kbarCall.runs = 0
    /\ \E bars \in KbarResults(df, unit) :
          kbarCall' = [snapshot |-> df, unit |-> unit, after |-> SnapshotAfter(df),
                       bars |-> bars, prev |-> <<>>, runs |-> 1]
    /\ UNCHANGED <<extraVars, coreVars, trades, omOut, botLast, fetchCall>>

(* The same snapshot object aggregated again with the same unit *)
AggregateAgain ==
    /\ kbarCall.runs = 1
    /\ \E bars \in KbarResults(kbarCall.after, kbarCall.unit) :
          kbarCall' = [kbarCall EXCEPT !.after = SnapshotAfter(kbarCall.after),
                                       !.bars = bars,
                                       !.prev = kbarCall.bars,
                                       !.runs = 2]
    /\ UNCHANGED <<extraVars, coreVars, trades, omOut, botLast, fetchCall>>

KbarNext ==
    \/ \E df \in Snapshots, unit \in Units : AggregateFirst(df, unit)
    \/ AggregateAgain

KbarSpec == QmSpecInit /\ [][KbarNext]_vars

----------------------------------------------------------------------------
(* C29: notify returns to its caller whatever the Telegram send did (200,  *)
(* another status, timeout or connection error).  So a tick callback       *)
(* leaves at the guards only when its tick does not qualify; a callback    *)
(* that entered the trigger goes on to cancel_order when a take-profit id  *)
(* is stored, and from there, or directly, to the submission of the stop   *)
(* market order.                                                           *)
C29_NotifyFailureIsHarmless ==
    [][ \A t \in CbThreads :
          /\ (cbPc[t] = "t_guard" /\ cbPc'[t] = "idle")
                => \/ TickGuard(position_closed, is_running)
                   \/ cbEvt[t].code # symbol
                   \/ ~StopHit(direction, cbEvt[t].price, sl_price)
          /\ (cbPc[t] = "t_trig" /\ cbPc'[t] # "t_trig")
                => cbPc'[t] = IF tp_order_id # NoId THEN "t_cancel" ELSE "t_place"
          /\ (cbPc[t] = "t_cancel" /\ cbPc'[t] # "t_cancel")
                => (cbPc'[t] = "t_place" /\ nCancelCalls' = nCancelCalls + 1)
          /\ (cbPc[t] = "t_place" /\ cbPc'[t] # "t_place")
                => nSlSubmit' = nSlSubmit + 1
      ]_vars

(* A Telegram send of this callback failed, and the take-profit cancel was *)
(* sent and the stop market order submitted all the same.                  *)
C29_Witness ==
    \E t \in CbThreads :
       /\ cbPc[t] = "t_store"
       /\ cbLoc[t].tg = "failed"
       /\ cbLoc[t].cancel = "sent"
       /\ orders[cbLoc[t].sl].ptype = "MKT"
       /\ nCancelCalls = 1 /\ nSlSubmit = 1

----------------------------------------------------------------------------
(* C31: a tick that goes through _on_tick_handler is appended to the       *)
(* buffer of its own market, the stock buffer for a stock tick and the     *)
(* futures/options buffer for any other tick, as long as that buffer is    *)
(* the list the handler looked up; the buffer of the other market, and a   *)
(* list of the other market that _get_df holds, are unchanged.             *)
C31_TickGoesToOwnMarket ==
    [][ (qmCb.pc = "loaded" /\ qmCb'.pc = "idle") =>
          LET tick == qmCb.tick
              own == IF tick.code \in StkCodes THEN "stk" ELSE "fop"
              other == IF own = "stk" THEN "fop" ELSE "stk"
          IN /\ _ticks'[other] = _ticks[other]
             /\ qmMain.market = other => qmMain' = qmMain
             /\ qmCb.ref = listId[own] =>
                   _ticks'[own] = Append(_ticks[own], tick)
             /\ Len(_ticks'[own]) <= Len(_ticks[own]) + 1
      ]_vars

(* A stock tick and a futures tick were delivered: each is in the buffer   *)
(* of its market and in no other.                                          *)
C31_Witness ==
    /\ _ticks["stk"] = <<[code |-> "2330", datetime |-> 1]>>
    /\ _ticks["fop"] = <<[code |-> Symbol, datetime |-> 2]>>
    /\ qmCb.pc = "idle"

----------------------------------------------------------------------------
(* Startup (core/config.py, core/client.py): the Config class reads the    *)
(* environment when its module is imported; ShioajiClient is a singleton   *)
(* whose first construction validates, creates the session and logs in.    *)

baseVars == <<coreVars, trades, omOut, botLast, fetchCall, kbarCall>>

Configs == [API_KEY : EnvValues, SECRET_KEY : EnvValues,
            CA_CERT_PATH : EnvValues, CA_PASSWORD : EnvValues]

(* Python's `not value` for None, "" and a non-empty string *)
Falsy(v) == v = None \/ v = ""

(* Mutant: the certificate settings are not checked *)
Validate_keysOnly(cfg, simulation) ==
    IF Falsy(cfg.API_KEY) \/ Falsy(cfg.SECRET_KEY) THEN "ValueError" ELSE "ok"

(* Config.validate(simulation) *)
Validate(cfg, simulation) ==
    IF Falsy(cfg.API_KEY) \/ Falsy(cfg.SECRET_KEY) THEN "ValueError"
    ELSE IF ~simulation /\ (Falsy(cfg.CA_CERT_PATH) \/ Falsy(cfg.CA_PASSWORD))
    THEN "ValueError"
    ELSE "ok"

(* import of core.config: the class attributes take the environment *)
LoadConfig(cfg) ==
    /\ ~client.loaded
    /\ client' = [client EXCEPT !.loaded = TRUE, !.cfg = cfg]
    /\ UNCHANGED <<baseVars, poll, ma, pair>>

(* ShioajiClient(simulation): __new__ stores the instance, then            *)
(* _initialize validates, creates the session, logs in and, outside        *)
(* simulation, activates the certificate.  A later construction returns    *)
(* the stored instance.                                                    *)
NewClient(simulation) ==
    /\ client.loaded
    /\ IF client.instance THEN UNCHANGED client
       ELSE IF Validate(client.cfg, simulation) # "ok"
       THEN client' = [client EXCEPT !.instance = TRUE,
                                     !.simulation = simulation,
                                     !.error = "ValueError"]
       ELSE client' = [client EXCEPT
                          !.instance = TRUE,
                          !.simulation = simulation,
                          !.session = IF simulation THEN "simulation" ELSE "real",
                          !.logins = 1,
                          !.ca = (~simulation /\ ~Falsy(client.cfg.CA_CERT_PATH)
                                    /\ ~Falsy(client.cfg.CA_PASSWORD))]
    /\ UNCHANGED <<baseVars, poll, ma, pair>>

ClientNext ==
    \/ \E cfg \in Configs : LoadConfig(cfg)
    \/ \E simulation \in BOOLEAN : NewClient(simulation)

ClientSpec == QmSpecInit /\ [][ClientNext]_vars

(* C32: when API_KEY or SECRET_KEY is missing, and outside simulation      *)
(* also when CA_CERT_PATH or CA_PASSWORD is missing, the construction of   *)
(* the client fails with the validation error, and no gateway session is   *)
(* created and login is not called, then or later.                         *)
C32_ValidationBeforeLogin ==
    client.instance =>
       LET cfg == client.cfg
           Missing(v) == v = None \/ v = ""
           bad == \/ Missing(cfg.API_KEY) \/ Missing(cfg.SECRET_KEY)
                  \/ ~client.simulation
                        /\ (Missing(cfg.CA_CERT_PATH) \/ Missing(cfg.CA_PASSWORD))
       IN bad => /\ client.error = "ValueError"
                 /\ client.session = "none"
                 /\ client.logins = 0
                 /\ ~client.ca

(* Outside simulation with both keys set and an empty certificate          *)
(* password: the construction failed and nothing was opened.               *)
C32_Witness ==
    /\ client.instance /\ ~client.simulation
    /\ client.cfg.API_KEY = "value" /\ client.cfg.SECRET_KEY = "value"
    /\ client.cfg.CA_CERT_PATH = "value" /\ client.cfg.CA_PASSWORD = ""
    /\ client.error = "ValueError"
    /\ client.logins = 0

----------------------------------------------------------------------------
(* C33: once the fill notification of the take-profit order has been       *)
(* delivered to on_trade, no stop-loss market order is submitted           *)
(* afterwards, whatever the interleaving with tick callbacks.              *)
C33_NoStopAfterTakeProfitFill ==
    [][ "tp" \in fillsDelivered => nSlSubmit' = nSlSubmit ]_vars

----------------------------------------------------------------------------
(* The callback on thread t returns without touching the strategy's flags  *)
(* and ids and without a request to the gateway.                           *)
Quiet(t) ==
    /\ cbPc'[t] = "idle"
    /\ UNCHANGED <<position_closed, is_running, tp_order_id, sl_order_id>>
    /\ UNCHANGED <<orders, gwPosition, subscribed, nCancelCalls, nCancelReq,
                   nSlSubmit, nTrigger, nClosed>>

(* C34: a tick whose code is not the strategy's symbol, and a fill         *)
(* notification whose order id is neither tp_order_id nor sl_order_id,     *)
(* are dropped by their callback: position_closed, is_running,             *)
(* tp_order_id and sl_order_id keep their values and nothing is sent to    *)
(* the gateway.                                                            *)
C34_ForeignEventsIgnored ==
    [][ \A t \in CbThreads :
          /\ (cbPc[t] = "t_guard" /\ cbEvt[t].code # symbol
                /\ cbPc'[t] # "t_guard") => Quiet(t)
          /\ (cbPc[t] = "o_guard"
                /\ cbEvt[t].oid \notin {tp_order_id, sl_order_id}
                /\ cbPc'[t] # "o_guard") => Quiet(t) ]_vars

(* The take-profit order was filled and its notification handled before    *)
(* run() stored the order id: the strategy is still running with the       *)
(* position open.                                                          *)
C34_Witness ==
    /\ "none" \in fillsDelivered
    /\ AllIdle
    /\ runPc = "tp_store" /\ tp_order_id = NoId
    /\ is_running /\ ~position_closed

----------------------------------------------------------------------------
(* C35: once run() has placed its order and gone on to monitor, it ends    *)
(* only after a matching fill was processed, after the stop was triggered  *)
(* or after stop() was called: it never ends while the strategy is running *)
(* and position_closed is false.  (That it does end in those three cases   *)
(* is a property of the loop at stop_loss.py:100-101, which run() does not *)
(* reach.)                                                                 *)
C35_RunEndsOnlyClosedOrStopped ==
    runPc = "crashed" => (~is_running \/ position_closed)

----------------------------------------------------------------------------
(* The command polling loop (core/telegram_bot.py, run).  Telegram numbers *)
(* the updates of a bot consecutively; getUpdates(offset) answers with the *)
(* stored updates whose update_id is at least offset, oldest first, up to  *)
(* a limit of its choosing.  poll.updates[i] is the update with id i,      *)
(* poll.dispatched the ids passed to _handle_command, in order.            *)

MaxUpdates == 3

(* What an update holds: an authorized command, a message without text,    *)
(* a message of another chat, a message without its chat field.            *)
UpdateKinds == {"command", "no_text", "foreign", "malformed"}

(* What requests.get / response.json() can do *)
PollOutcomes == {"ok", "http_error", "not_ok", "network", "bad_json"}

(* The exception a failure raises in the loop body; None: no exception *)
Raised(failure) ==
    CASE failure = "network" -> "RequestException"
      [] failure = "bad_json" -> "ValueError"
      [] failure = "malformed" -> "KeyError"
      [] failure = "interrupt" -> "KeyboardInterrupt"
      [] OTHER -> None

(* except requests.exceptions.RequestException / except Exception: both    *)
(* sleep and let the while loop go on; KeyboardInterrupt is not an         *)
(* Exception and leaves run().                                             *)
LoopAfter(exc) ==
    IF exc = "KeyboardInterrupt" THEN "ended" ELSE "polling"

(* Mutant: the offset is the id of the last update seen *)
OffsetAfter_same(update_id) == update_id

(* self.last_update_id = update["update_id"] + 1 *)
OffsetAfter(update_id) == update_id + 1

(* The answer to getUpdates(offset): ids offset.. that exist, cut at n *)
Pending(offset, n) ==
    LET first == IF offset < 1 THEN 1 ELSE offset
        last == IF first + n - 1 < Len(poll.updates)
                THEN first + n - 1 ELSE Len(poll.updates)
    IN [k \in 1..(IF last < first THEN 0 ELSE last - first + 1) |->
           [update_id |-> first + k - 1, kind |-> poll.updates[first + k - 1]]]

pollFrame == <<baseVars, client, ma, pair>>

(* A user (or anyone) sends the bot a message *)
NewUpdate(kind) ==
    /\ Len(poll.updates) < MaxUpdates
    /\ poll' = [poll EXCEPT !.updates = Append(@, kind)]
    /\ UNCHANGED pollFrame

(* run(): the "Bot Started" notice, then the loop *)
BotRun ==
    /\ poll.pc = "new"
    /\ poll' = [poll EXCEPT !.pc = "polling"]
    /\ UNCHANGED pollFrame

(* One requests.get(url, params = {offset: last_update_id}) and what the   *)
(* loop does with a failure of it                                          *)
PollRequest(outcome, n) ==
    /\ poll.pc = "polling"
    /\ IF outcome = "ok"
       THEN LET result == Pending(poll.last_update_id, n) IN
            poll' = [poll EXCEPT !.batch = result,
                                 !.pc = IF result = <<>> THEN "polling" ELSE "batch"]
       ELSE poll' = [poll EXCEPT !.failures = @ \cup {outcome},
                                 !.pc = LoopAfter(Raised(outcome))]
    /\ UNCHANGED pollFrame

(* One pass of `for update in data.get("result", [])` *)
BatchStep ==
    /\ poll.pc = "batch"
    /\ LET u == Head(poll.batch)
           rest == Tail(poll.batch)
           after == IF rest = <<>> THEN "polling" ELSE "batch"
           seen == [poll EXCEPT !.last_update_id = OffsetAfter(u.update_id)]
       IN CASE u.kind = "malformed" ->
                 poll' = [seen EXCEPT !.batch = <<>>,
                                      !.failures = @ \cup {"exception"},
                                      !.pc = LoopAfter(Raised("malformed"))]
            [] u.kind = "command" ->
                 poll' = [seen EXCEPT !.batch = rest, !.pc = after,
                                      !.dispatched = Append(@, u.update_id)]
            [] OTHER ->
                 poll' = [seen EXCEPT !.batch = rest, !.pc = after]
    /\ UNCHANGED pollFrame

(* Ctrl-C in the terminal that runs the bot *)
BotInterrupt ==
    /\ poll.pc \in {"polling", "batch"}
    /\ poll' = [poll EXCEPT !.pc = LoopAfter(Raised("interrupt")),
                            !.batch = <<>>,
                            !.endedBy = Raised("interrupt")]
    /\ UNCHANGED pollFrame

PollNext ==
    \/ \E kind \in UpdateKinds : NewUpdate(kind)
    \/ BotRun
    \/ \E outcome \in PollOutcomes, n \in 1..MaxUpdates : PollRequest(outcome, n)
    \/ BatchStep
    \/ BotInterrupt

PollSpec == QmSpecInit /\ [][PollNext]_vars

(* C36: last_update_id never decreases; no update is passed to the command *)
(* handler twice, over all iterations of the loop, the failed ones         *)
(* included; and the loop is left by nothing but the user's interrupt:     *)
(* not by a non-200 answer, a network error or an exception in a batch.    *)
C36_PollingAtMostOnce ==
    [][ /\ poll'.last_update_id >= poll.last_update_id
        /\ \A i, j \in DOMAIN poll'.dispatched :
              i # j => poll'.dispatched[i] # poll'.dispatched[j]
        /\ poll'.pc = "ended" => poll'.endedBy = "KeyboardInterrupt" ]_vars

(* A batch of two: the first update raised in the loop body, the second    *)
(* was fetched again and dispatched; a non-200 answer and a network error  *)
(* happened on the way, and the loop is polling.                           *)
C36_Witness ==
    /\ Len(poll.updates) >= 2
    /\ poll.updates[1] = "malformed" /\ poll.updates[2] = "command"
    /\ {"exception", "http_error", "network"} \subseteq poll.failures
    /\ poll.dispatched = <<2>>
    /\ poll.last_update_id = 3
    /\ poll.pc = "polling"

----------------------------------------------------------------------------
(* MACrossoverStrategy.run (strategy/ma_crossover.py) on the main thread,  *)
(* with the quote manager it drives reduced to what run() uses of it: the  *)
(* futures active set, the ticks waiting in the buffer and the prices of   *)
(* the accumulated series.  Every call that reaches the gateway can raise. *)

MaxSeries == 6
MaPrices == {1, 3}
GatewayResults == {"ok", "raises"}
Backfills == {<<>>, <<1>>, <<1, 1>>}

maFrame == <<baseVars, client, poll, pair>>

RECURSIVE SumPrices(_)
SumPrices(s) == IF s = <<>> THEN 0 ELSE Head(s) + SumPrices(Tail(s))

(* tail(n) of a series *)
LastRows(s, n) == SubSeq(s, Len(s) - n + 1, Len(s))

(* previous_price < ma_5 and current_price > ma_5, ma_5 the mean of the    *)
(* last five prices                                                        *)
CrossedAbove(df) ==
    LET total == SumPrices(LastRows(df, 5))
    IN df[Len(df) - 1] * 5 < total /\ df[Len(df)] * 5 > total

(* self.quote_manager.subscribe_fop_tick([symbol], recover=True), before   *)
(* the try: lookup, api.quote.subscribe, _subscribed.add, then the         *)
(* backfill through api.ticks.                                             *)
MaSubscribe(found, sub, fetch, rows) ==
    /\ ma.pc = "new"
    /\ IF ~found
       THEN ma' = [ma EXCEPT !.pc = "loop"]
       ELSE IF sub = "raises"
       THEN ma' = [ma EXCEPT !.pc = "raised", !.exit = "subscribe"]
       ELSE IF fetch = "raises"
       THEN ma' = [ma EXCEPT !.pc = "raised", !.exit = "recover",
                             !.subscribed = {Symbol}]
       ELSE ma' = [ma EXCEPT !.pc = "loop", !.subscribed = {Symbol},
                             !.df = rows]
    /\ UNCHANGED maFrame

(* The push thread appends a tick of a subscribed contract *)
MaTick(price) ==
    /\ ma.pc \in {"loop", "stopping"}
    /\ ma.subscribed # {}
    /\ Len(ma.df) + Len(ma.buffer) < MaxSeries
    /\ ma' = [ma EXCEPT !.buffer = Append(@, price)]
    /\ UNCHANGED maFrame

(* One pass of `while not order_placed`: get_df_fop(), the count check,    *)
(* the signal and the order.  Leaving the loop, by the flag or by an       *)
(* exception, enters the finally clause.                                   *)
MaPoll(found, place) ==
    /\ ma.pc = "loop"
    /\ LET df == ma.df \o ma.buffer
           polled == [ma EXCEPT !.df = df, !.buffer = <<>>]
       IN IF Len(df) > ma.last_tick_count
          THEN LET counted == [polled EXCEPT !.last_tick_count = Len(df)] IN
               IF Len(df) >= 5 /\ CrossedAbove(df)
               THEN IF ~found
                    THEN ma' = [counted EXCEPT !.pc = "stopping",
                                               !.exit = "ValueError"]
                    ELSE IF place = "raises"
                    THEN ma' = [counted EXCEPT !.pc = "stopping",
                                               !.exit = "place"]
                    ELSE ma' = [counted EXCEPT !.pc = "stopping",
                                               !.exit = "order_placed",
                                               !.orders = @ + 1,
                                               !.rowsAtOrder = Len(df)]
               ELSE ma' = counted
          ELSE ma' = polled
    /\ UNCHANGED maFrame

(* except KeyboardInterrupt *)
MaInterrupt ==
    /\ ma.pc = "loop"
    /\ ma' = [ma EXCEPT !.pc = "stopping", !.exit = "interrupt"]
    /\ UNCHANGED maFrame

(* finally: self.stop() -> unsubscribe_all_fop_tick(): a gateway           *)
(* unsubscribe per active code, then clear()                               *)
MaStop(found, unsub) ==
    /\ ma.pc = "stopping"
    /\ IF ma.subscribed # {} /\ found /\ unsub = "raises"
       THEN ma' = [ma EXCEPT !.pc = "raised", !.exit = "unsubscribe"]
       ELSE ma' = [ma EXCEPT !.subscribed = {},
                             !.pc = IF ma.exit \in {"order_placed", "interrupt"}
                                    THEN "returned" ELSE "raised"]
    /\ UNCHANGED maFrame

MaNext ==
    \/ \E found \in BOOLEAN, sub \in GatewayResults, fetch \in GatewayResults,
          rows \in Backfills : MaSubscribe(found, sub, fetch, rows)
    \/ \E price \in MaPrices : MaTick(price)
    \/ \E found \in BOOLEAN, place \in GatewayResults : MaPoll(found, place)
    \/ MaInterrupt
    \/ \E found \in BOOLEAN, unsub \in GatewayResults : MaStop(found, unsub)

MaSpec == QmSpecInit /\ [][MaNext]_vars

(* C37: a run places at most one order, and only with five or more ticks   *)
(* in the series; and however run() ends (order placed, user interrupt,    *)
(* exception from the gateway) the futures active set is empty then.       *)
C37_OneOrderAndUnsubscribed ==
    /\ ma.orders <= 1
    /\ ma.orders = 1 => ma.rowsAtOrder >= 5
    /\ ma.pc \in {"returned", "raised"} => ma.subscribed = {}

----------------------------------------------------------------------------
(* The refactored data.quote.QuoteManager (pair.new) and the legacy         *)
(* quote.QuoteManager (pair.old) driven by the same calls, with the same   *)
(* gateway answers.  A manager is its active sets, its tick buffers, its   *)
(* accumulated frames, the gateway calls it made (gw) and what its last    *)
(* get_df returned (ret).  Each call is taken as a whole.                  *)

MaxOps == 3
PairCodes == {"2330", Symbol}

pairFrame == <<baseVars, client, poll, ma>>

(* The backfill both managers get from fetch_ticks for the code *)
Fetched(code) == <<[code |-> code, datetime |-> 0, src |-> "hist"]>>

(* data/quote.py _subscribe *)
NewSubscribe(st, m, c, recover, found) ==
    IF SubscribeSkips(found, c, st.subscribed[m]) THEN st
    ELSE [st EXCEPT !.gw = Append(@, <<"subscribe", c>>),
                    !.subscribed[m] = @ \cup {c},
                    !.df[m] = IF recover
                              THEN RecoverMerge(@, Fetched(c), st.ticks[m], c)
                              ELSE @]

(* quote.py subscribe_stk_tick / subscribe_fop_tick *)
OldSubscribe(st, m, c, recover, found) ==
    IF found /\ c \notin st.subscribed[m]
    THEN LET OfCode(t) == t.code = c
             code_ticks == SelectSeq(st.ticks[m], OfCode)
             Before(r) == r.datetime < code_ticks[1].datetime
         IN [st EXCEPT !.gw = Append(@, <<"subscribe", c>>),
                       !.subscribed[m] = @ \cup {c},
                       !.df[m] = IF ~recover THEN @
                                 ELSE IF code_ticks # <<>>
                                 THEN @ \o SelectSeq(Fetched(c), Before)
                                 ELSE @ \o Fetched(c)]
    ELSE st

(* data/quote.py _unsubscribe *)
NewUnsubscribe(st, m, c, found) ==
    IF c \notin st.subscribed[m] THEN st
    ELSE [st EXCEPT !.gw = IF found THEN Append(@, <<"unsubscribe", c>>) ELSE @,
                    !.subscribed[m] = @ \ {c}]

(* quote.py unsubscribe_stk_tick / unsubscribe_fop_tick *)
OldUnsubscribe(st, m, c, found) ==
    IF found /\ c \in st.subscribed[m]
    THEN [st EXCEPT !.gw = Append(@, <<"unsubscribe", c>>),
                    !.subscribed[m] = @ \ {c}]
    ELSE st

(* The gateway calls of an unsubscribe-all over the active codes, taken in *)
(* one order for both managers; found: the codes whose lookup succeeds.    *)
RECURSIVE UnsubscribeEach(_, _)
UnsubscribeEach(codes, found) ==
    IF codes = {} THEN <<>>
    ELSE LET c == CHOOSE x \in codes : TRUE
         IN (IF c \in found THEN <<(<<"unsubscribe", c>>)>> ELSE <<>>)
               \o UnsubscribeEach(codes \ {c}, found)

(* data/quote.py _unsubscribe_all *)
NewUnsubscribeAll(st, m, found) ==
    [st EXCEPT !.gw = @ \o UnsubscribeEach(st.subscribed[m], found),
               !.subscribed[m] = {}]

(* quote.py unsubscribe_all_stk_tick / unsubscribe_all_fop_tick *)
OldUnsubscribeAll(st, m, found) ==
    [st EXCEPT !.gw = @ \o UnsubscribeEach(st.subscribed[m], found),
               !.subscribed[m] = {}]

(* data/quote.py _on_tick_handler *)
NewOnTick(st, tick) ==
    [st EXCEPT !.ticks[MarketOf(tick.code)] = Append(@, tick)]

(* quote.py on_stk_v1_tick_handler / on_fop_v1_tick_handler: the gateway   *)
(* calls the one registered for the tick's market                          *)
OldOnTick(st, tick) ==
    IF tick.code \in StkCodes
    THEN [st EXCEPT !.ticks["stk"] = Append(@, tick)]
    ELSE [st EXCEPT !.ticks["fop"] = Append(@, tick)]

(* data/quote.py _get_df *)
NewGetDf(st, m) ==
    LET df == st.df[m] \o ToRows(st.ticks[m])
    IN [st EXCEPT !.ticks[m] = <<>>, !.df[m] = df, !.ret = df]

(* quote.py get_df_stk / get_df_fop *)
OldGetDf(st, m) ==
    LET poped_ticks == st.ticks[m]
        df == IF poped_ticks # <<>> THEN st.df[m] \o ToRows(poped_ticks)
              ELSE st.df[m]
    IN [st EXCEPT !.ticks[m] = <<>>, !.df[m] = df, !.ret = df]

(* The pair after one more call *)
Paired(new, old, failed) ==
    [new |-> new, old |-> old, ops |-> pair.ops + 1,
     lookupFailed |-> (pair.lookupFailed \/ failed)]

BothSubscribe(c, recover, found) ==
    /\ pair.ops < MaxOps
    /\ pair' = Paired(NewSubscribe(pair.new, MarketOf(c), c, recover, found),
                      OldSubscribe(pair.old, MarketOf(c), c, recover, found),
                      ~found)
    /\ UNCHANGED pairFrame

BothUnsubscribe(c, found) ==
    /\ pair.ops < MaxOps
    /\ pair' = Paired(NewUnsubscribe(pair.new, MarketOf(c), c, found),
                      OldUnsubscribe(pair.old, MarketOf(c), c, found),
                      ~found)
    /\ UNCHANGED pairFrame

BothUnsubscribeAll(m, found) ==
    /\ pair.ops < MaxOps
    /\ pair' = Paired(NewUnsubscribeAll(pair.new, m, found),
                      OldUnsubscribeAll(pair.old, m, found),
                      ~(pair.new.subscribed[m] \cup pair.old.subscribed[m]
                           \subseteq found))
    /\ UNCHANGED pairFrame

(* The gateway pushes a tick to the handler each manager registered *)
BothTick(c) ==
    /\ pair.ops < MaxOps
    /\ LET tick == [code |-> c, datetime |-> pair.ops + 1] IN
       pair' = Paired(NewOnTick(pair.new, tick), OldOnTick(pair.old, tick), FALSE)
    /\ UNCHANGED pairFrame

BothGetDf(m) ==
    /\ pair.ops < MaxOps
    /\ pair' = Paired(NewGetDf(pair.new, m), OldGetDf(pair.old, m), FALSE)
    /\ UNCHANGED pairFrame

PairNext ==
    \/ \E c \in PairCodes, recover \in BOOLEAN, found \in BOOLEAN :
          BothSubscribe(c, recover, found)
    \/ \E c \in PairCodes, found \in BOOLEAN : BothUnsubscribe(c, found)
    \/ \E m \in Markets, found \in SUBSET PairCodes : BothUnsubscribeAll(m, found)
    \/ \E c \in PairCodes : BothTick(c)
    \/ \E m \in Markets : BothGetDf(m)

PairSpec == QmSpecInit /\ [][PairNext]_vars

(* C38: after any sequence of subscribe, unsubscribe, unsubscribe_all,     *)
(* tick-callback and get_df calls, with contract lookups that may return   *)
(* nothing, the two managers have the same active sets, have made the same *)
(* gateway calls and return the same accumulated series.                   *)
C38_ManagersAgree ==
    /\ pair.new.subscribed = pair.old.subscribed
    /\ pair.new.gw = pair.old.gw
    /\ pair.new.ret = pair.old.ret
    /\ pair.new.df = pair.old.df

====
